---- MODULE Spec2Model ----
(***************************************************************************)
(* Greengrass provisioning service: the orchestrator (main), the status    *)
(* reporter and its status file, the provisioning checker, the config      *)
(* generator and the provisioner, as state machines over an abstract file  *)
(* system.                                                                  *)
(*                                                                         *)
(* Abstractions.  Timestamps are left out of StatusInfo and of the status  *)
(* document.  A file is a sequence of items: a status document is          *)
(* NumBlocks blocks (one block per write(2) the stream issues), any other  *)
(* file is a sequence of <<key, value>> lines.  A file name under the      *)
(* Greengrass root is <<directory, stem, suffix>>.                         *)
(***************************************************************************)
EXTENDS Integers, Sequences, FiniteSets, TLC

VARIABLES
    pc,               \* position of main() in the current run
    exit_code,        \* value main() returned, Running while it has not
    run,              \* number of the current run (process invocation)
    current_status_,  \* StatusReporter::current_status_ of the orchestrator
    disk,             \* the status file's directory: inodes, tmp and target paths
    fs,               \* the tree under the Greengrass root
    db,               \* the record store's tables
    env,              \* per-run facts of main(): results of the steps, calls made
    trace,            \* the status writes of the current run, in order
    prev,             \* how the previous run ended
    wr,               \* independent status writers (processes) and their position
    obs               \* the polling reader: open descriptor, buffer, last complete read

vars == <<pc, exit_code, run, current_status_, disk, fs, db, env, trace, prev, wr, obs>>

-----------------------------------------------------------------------------
(* Bounds *)

MaxRuns == 2        \* process invocations of the orchestrator in one behaviour
MaxCalls == 2       \* update_status/report_error calls the writers make in one behaviour
NumBlocks == 2      \* write(2) calls it takes to put one document into a file
MaxFlips == 1       \* times the environment makes the status directory (un)writable
MaxOps == 3         \* calls made on one ConfigDatabase object in one behaviour

-----------------------------------------------------------------------------
(* enum class ServiceStatus *)

STARTING == 0
CHECKING_PROVISIONING == 1
ALREADY_PROVISIONED == 2
CHECKING_CONNECTIVITY == 3
NO_CONNECTIVITY == 4
READING_DATABASE == 5
GENERATING_CONFIG == 6
PROVISIONING == 7
COMPLETED == 8
ERROR == 9

ServiceStatus == STARTING..ERROR

Running == -1       \* exit_code while main() has not returned
Aborted == 134      \* std::terminate: an exception left main()

status_to_string(status) ==
    CASE status = STARTING -> "STARTING"
      [] status = CHECKING_PROVISIONING -> "CHECKING_PROVISIONING"
      [] status = ALREADY_PROVISIONED -> "ALREADY_PROVISIONED"
      [] status = CHECKING_CONNECTIVITY -> "CHECKING_CONNECTIVITY"
      [] status = NO_CONNECTIVITY -> "NO_CONNECTIVITY"
      [] status = READING_DATABASE -> "READING_DATABASE"
      [] status = GENERATING_CONFIG -> "GENERATING_CONFIG"
      [] status = PROVISIONING -> "PROVISIONING"
      [] status = COMPLETED -> "COMPLETED"
      [] status = ERROR -> "ERROR"
      [] OTHER -> "UNKNOWN"

-----------------------------------------------------------------------------
(* StatusReporter: the in-memory record *)

\* No reporter has been constructed (yet) in this run.
NoStatus == [status |-> -1, message |-> "", progress_percentage |-> 0, error_details |-> ""]

\* StatusReporter::StatusReporter, the fields it sets before the first write.
InitialStatus ==
    [status |-> STARTING, message |-> "Service is starting",
     progress_percentage |-> 0, error_details |-> ""]

\* No message is supplied for an empty argument.
DefaultMessage_None(status) == ""

\* update_status, the switch that supplies a message when the argument is empty.
DefaultMessage(status) ==
    CASE status = STARTING -> "Service is starting"
      [] status = CHECKING_PROVISIONING -> "Checking if Greengrass is already provisioned"
      [] status = ALREADY_PROVISIONED -> "Greengrass is already provisioned"
      [] status = CHECKING_CONNECTIVITY -> "Checking internet connectivity"
      [] status = NO_CONNECTIVITY -> "No internet connectivity available"
      [] status = READING_DATABASE -> "Reading configuration from database"
      [] status = GENERATING_CONFIG -> "Generating Greengrass configuration"
      [] status = PROVISIONING -> "Provisioning Greengrass device"
      [] status = COMPLETED -> "Provisioning completed successfully"
      [] status = ERROR -> "An error occurred during provisioning"

\* Every status gets progress 0 when the argument is out of range.
AutoProgress_Zero(status, old) == 0

\* The progress argument is stored as it came.
StoreProgress_Unchecked(status, old, progress) == progress

\* update_status, the switch that supplies the progress when the argument is
\* outside 0..100; ERROR keeps the progress the record had.
AutoProgress(status, old) ==
    CASE status = STARTING -> 5
      [] status = CHECKING_PROVISIONING -> 10
      [] status \in {ALREADY_PROVISIONED, COMPLETED} -> 100
      [] status \in {CHECKING_CONNECTIVITY, NO_CONNECTIVITY} -> 20
      [] status = READING_DATABASE -> 40
      [] status = GENERATING_CONFIG -> 60
      [] status = PROVISIONING -> 80
      [] OTHER -> old

\* The argument defaults of update_status's declaration.
NoMessage == ""
NoProgress == -1

\* update_status, the progress it stores: the argument when it is in 0..100,
\* else the value the switch supplies for the status.
StoreProgress(status, old, progress) ==
    IF progress >= 0 /\ progress <= 100 THEN progress
    ELSE AutoProgress(status, old)

\* update_status leaves the error detail as it was, whatever the status.
update_status_KeepsDetail(cs, status, message, progress) ==
    [status |-> status,
     message |-> IF message # "" THEN message ELSE DefaultMessage(status),
     progress_percentage |-> StoreProgress(status, cs.progress_percentage, progress),
     error_details |-> cs.error_details]

\* StatusReporter::update_status, the record it leaves in current_status_.
update_status(cs, status, message, progress) ==
    [status |-> status,
     message |-> IF message # "" THEN message ELSE DefaultMessage(status),
     progress_percentage |-> StoreProgress(status, cs.progress_percentage, progress),
     error_details |-> IF status # ERROR THEN "" ELSE cs.error_details]

\* report_error also puts the progress back to 0.
report_error_ResetsProgress(cs, error_message, details) ==
    [status |-> ERROR, message |-> error_message,
     progress_percentage |-> 0, error_details |-> details]

\* StatusReporter::report_error, the record it leaves in current_status_.
report_error(cs, error_message, details) ==
    [cs EXCEPT !.status = ERROR, !.message = error_message, !.error_details = details]

\* StatusReporter::get_current_status.
get_current_status(cs) == cs

\* The JSON object without the error detail, whatever the record holds.
status_json_NoDetail(cs) ==
    [status |-> status_to_string(cs.status),
     message |-> cs.message,
     progress_percentage |-> cs.progress_percentage]

\* The JSON object with the error detail as a key in every document.
status_json_AlwaysDetail(cs) ==
    [status |-> status_to_string(cs.status),
     message |-> cs.message,
     progress_percentage |-> cs.progress_percentage,
     error_details |-> cs.error_details]

\* write_status_file, the JSON object it builds: error_details is a key of
\* the object only when the detail is not empty.
status_json(cs) ==
    LET base == [status |-> status_to_string(cs.status),
                 message |-> cs.message,
                 progress_percentage |-> cs.progress_percentage]
    IN IF cs.error_details # "" THEN base @@ [error_details |-> cs.error_details]
       ELSE base

-----------------------------------------------------------------------------
(* The status file's directory.  disk.inodes[i] is the content of inode i, *)
(* disk.tmp and disk.target the inode each path names (0: no such file),   *)
(* disk.dir_ok whether a file can be opened for writing in the directory.  *)

MaxWriters == 2     \* independent StatusReporter processes on one path

Inodes == 1..(MaxWriters + 2)

\* A block no writer wrote: the zeros of a hole behind a truncated file's end.
Hole == [part |-> 0, doc |-> [status |-> "", message |-> "", progress_percentage |-> 0]]

\* file << status_json.dump(4) << std::endl, as the blocks the stream writes.
Blocks(doc) == [k \in 1..NumBlocks |-> [part |-> k, doc |-> doc]]

\* A file content that is one whole document.
IsDocument(content) ==
    /\ Len(content) = NumBlocks
    /\ \A k \in 1..NumBlocks : content[k].part = k /\ content[k].doc = content[1].doc

NoFile == <<[part |-> -1, doc |-> Hole.doc]>>

\* The content a reader finds at a path.
ReadPath(d, inode) == IF inode = 0 THEN NoFile ELSE d.inodes[inode]

ReadTarget(d) == ReadPath(d, d.target)

\* Inodes no path and no open descriptor refers to.
FreeInodes(d, open) == Inodes \ ({d.tmp, d.target} \cup open)

\* The stream opened on the status file's own path: no temporary file.
OpenTrunc_InPlace(d, open) ==
    LET i == IF d.target # 0 THEN d.target
             ELSE CHOOSE j \in FreeInodes(d, open) : \A k \in FreeInodes(d, open) : j <= k
    IN [d EXCEPT !.target = i, !.tmp = i, !.inodes[i] = <<>>]

\* std::ofstream file(temp_file): open with O_CREAT | O_TRUNC.  The inode the
\* path already names is truncated in place, else a new one is created.
OpenTrunc(d, open) ==
    LET i == IF d.tmp # 0 THEN d.tmp
             ELSE CHOOSE j \in FreeInodes(d, open) : \A k \in FreeInodes(d, open) : j <= k
    IN [d EXCEPT !.tmp = i, !.inodes[i] = <<>>]

\* One write(2) of block blk at offset k - 1 of inode i.
WriteBlock(d, i, k, blk) ==
    LET old == d.inodes[i]
        n == IF Len(old) > k THEN Len(old) ELSE k
    IN [d EXCEPT !.inodes[i] =
           [j \in 1..n |-> IF j = k THEN blk ELSE IF j <= Len(old) THEN old[j] ELSE Hole]]

\* An inode no path names and no descriptor holds is gone with its content.
Reclaim(d, open) ==
    [d EXCEPT !.inodes = [i \in Inodes |->
        IF i \in FreeInodes(d, open) THEN <<>> ELSE d.inodes[i]]]

\* A rename that removes the temporary path and leaves the target as it was.
Rename_KeepsTarget(d) == [d EXCEPT !.tmp = 0]

\* std::filesystem::rename(temp_file, status_file_path_): the target path
\* names the temporary file's inode and the temporary path is gone.
Rename(d) == [d EXCEPT !.target = d.tmp, !.tmp = 0]

\* file.is_open(): the temporary file could be created or truncated.
CanOpen(d) == d.dir_ok

\* std::filesystem::rename throws: the temporary path names no file (another
\* process renamed it away) or the directory does not take the change.
RenameThrows(d) == d.tmp = 0 \/ ~d.dir_ok

RECURSIVE WriteBlocks(_, _, _, _)
WriteBlocks(d, i, blocks, k) ==
    IF k > Len(blocks) THEN d
    ELSE WriteBlocks(WriteBlock(d, i, k, blocks[k]), i, blocks, k + 1)

\* StatusReporter::write_status_file run without interruption: nothing is
\* written when the temporary file cannot be opened (the failure is logged).
write_status_file(d, cs) ==
    IF ~CanOpen(d) THEN d
    ELSE LET o == OpenTrunc(d, {})
         IN Reclaim(Rename(WriteBlocks(o, o.tmp, Blocks(status_json(cs)), 1)), {})

-----------------------------------------------------------------------------
(* The tree under the Greengrass root.  fs.dirs holds the directories      *)
(* ("" is the root itself), fs.files maps <<directory, stem, suffix>> to   *)
(* [content, mode].  <<"", d, "">> is a regular file named d in the root.  *)

ConfigFiles == <<".yaml", ".yml", ".json">>

ConfigKey(ext) == <<"config", "config", ext>>

HasFile(f, key) == key \in DOMAIN f.files

FilesIn(f, dir) == {key \in DOMAIN f.files : key[1] = dir}

\* std::filesystem::exists on a path of the root.
Exists(f, dir) == dir \in f.dirs \/ HasFile(f, <<"", dir, "">>)

\* filename.find(pattern) != npos, on a name whose stem holds no pattern.
Contains(key, pattern) ==
    \/ key[3] = pattern
    \/ key[3] = ".private.key" /\ pattern = ".key"

\* std::filesystem::path::extension: from the last dot on.
Extension(key) ==
    CASE key[3] \in {".cert.pem", ".ca.pem"} -> ".pem"
      [] key[3] = ".private.key" -> ".key"
      [] OTHER -> key[3]

Keys(content) == {content[i][1] : i \in DOMAIN content}

\* The value of the first line of the content with the key.
ValueOf(content, key) ==
    LET i == CHOOSE j \in DOMAIN content :
                 content[j][1] = key /\ \A k \in DOMAIN content : content[k][1] = key => j <= k
    IN content[i][2]

Malformed == "<malformed>"   \* the key of a line nlohmann::json::parse rejects

\* ProvisioningChecker::check_config_exists
check_config_exists(f) ==
    \E i \in DOMAIN ConfigFiles : HasFile(f, ConfigKey(ConfigFiles[i]))

\* ProvisioningChecker::check_directory_not_empty; is_empty of a regular
\* file is whether its size is 0.
check_directory_not_empty(f, dir) ==
    /\ Exists(f, dir)
    /\ IF dir \in f.dirs THEN FilesIn(f, dir) # {}
       ELSE f.files[<<"", dir, "">>].content # <<>>

\* check_certificates_exist: std::filesystem::directory_iterator throws when
\* the certs path is a non-empty regular file.
certificates_throw(f) ==
    HasFile(f, <<"", "certs", "">>) /\ check_directory_not_empty(f, "certs")

\* ProvisioningChecker::check_certificates_exist, where it does not throw.
check_certificates_exist(f) ==
    /\ Exists(f, "certs")
    /\ check_directory_not_empty(f, "certs")
    /\ \E key \in FilesIn(f, "certs") : Contains(key, ".cert.pem") \/ Contains(key, ".crt")
    /\ \E key \in FilesIn(f, "certs") : Contains(key, ".private.key") \/ Contains(key, ".key")

\* Anything at the ggc-root path counts, a regular file too.
check_greengrass_root_exists_AnyKind(f) == Exists(f, "ggc-root")

\* ProvisioningChecker::check_greengrass_root_exists
check_greengrass_root_exists(f) == Exists(f, "ggc-root") /\ "ggc-root" \in f.dirs

\* validate_config_file, the loop from the i-th candidate on.
RECURSIVE ValidateFrom(_, _)
ValidateFrom(f, i) ==
    IF i > Len(ConfigFiles) THEN FALSE
    ELSE IF ~HasFile(f, ConfigKey(ConfigFiles[i])) THEN ValidateFrom(f, i + 1)
    ELSE LET content == f.files[ConfigKey(ConfigFiles[i])].content
         IN IF content = <<>> THEN FALSE
            ELSE IF ConfigFiles[i] \in {".yaml", ".yml"}
                 THEN IF {"system:", "services:"} \subseteq Keys(content) THEN TRUE
                      ELSE ValidateFrom(f, i + 1)
            ELSE IF Malformed \in Keys(content) THEN FALSE
            ELSE IF Keys(content) \cap {"coreThing", "system"} # {} THEN TRUE
            ELSE ValidateFrom(f, i + 1)

\* The configuration is taken as valid without being read.
validate_config_file_Skipped(f) == TRUE

\* ProvisioningChecker::validate_config_file
validate_config_file(f) == ValidateFrom(f, 1)

\* read_thing_name_from_config, the loop from the i-th candidate on.
RECURSIVE ThingNameFrom(_, _)
ThingNameFrom(f, i) ==
    IF i > Len(ConfigFiles) THEN "unknown"
    ELSE IF ~HasFile(f, ConfigKey(ConfigFiles[i])) THEN ThingNameFrom(f, i + 1)
    ELSE LET content == f.files[ConfigKey(ConfigFiles[i])].content
         IN IF ConfigFiles[i] \in {".yaml", ".yml"}
            THEN IF "thingName:" \in Keys(content) THEN ValueOf(content, "thingName:")
                 ELSE ThingNameFrom(f, i + 1)
            ELSE IF Malformed \in Keys(content) THEN ThingNameFrom(f, i + 1)
            ELSE IF "coreThing.thingName" \in Keys(content)
                 THEN ValueOf(content, "coreThing.thingName")
            ELSE IF "system.thingName" \in Keys(content)
                 THEN ValueOf(content, "system.thingName")
            ELSE ThingNameFrom(f, i + 1)

\* ProvisioningChecker::read_thing_name_from_config
read_thing_name_from_config(f) == ThingNameFrom(f, 1)

\* ProvisioningChecker::detect_greengrass_version
detect_greengrass_version(f) ==
    IF Exists(f, "recipes") THEN "v2.x"
    ELSE IF HasFile(f, ConfigKey(".yaml")) \/ HasFile(f, ConfigKey(".yml")) THEN "v2.x"
    ELSE IF HasFile(f, ConfigKey(".json")) THEN "v1.x"
    ELSE "unknown"

NotProvisioned(details, missing) ==
    [threw |-> FALSE, is_provisioned |-> FALSE, thing_name |-> "",
     greengrass_version |-> "", missing_components |-> missing, details |-> details]

\* ProvisioningChecker::check_provisioning_status; threw: an exception of
\* check_certificates_exist left the call.
check_provisioning_status(f) ==
    IF ~Exists(f, "") THEN NotProvisioned("Greengrass directory does not exist", <<>>)
    ELSE IF certificates_throw(f)
    THEN [NotProvisioned("filesystem error: directory iterator cannot open directory", <<>>)
            EXCEPT !.threw = TRUE]
    ELSE LET has_config == check_config_exists(f)
             has_certs == check_certificates_exist(f)
             has_root == check_greengrass_root_exists(f)
             missing == (IF has_config THEN <<>> ELSE <<"config">>)
                        \o (IF has_certs THEN <<>> ELSE <<"certificates">>)
                        \o (IF has_root THEN <<>> ELSE <<"ggc-root">>)
         IN IF has_config /\ has_certs /\ has_root
            THEN IF validate_config_file(f)
                 THEN [threw |-> FALSE, is_provisioned |-> TRUE,
                       thing_name |-> read_thing_name_from_config(f),
                       greengrass_version |-> detect_greengrass_version(f),
                       missing_components |-> missing,
                       details |-> "Greengrass is fully provisioned"]
                 ELSE NotProvisioned("Configuration file is invalid or corrupted", missing)
            ELSE NotProvisioned("Missing components", missing)

-----------------------------------------------------------------------------
(* ConfigGenerator *)

Quote(s) == "\"" \o s \o "\""

GreengrassPath == "/greengrass/v2"   \* options->greengrass_path

DefaultMode == {"owner_read", "owner_write", "group_read", "others_read"}

\* set_file_permissions, the bits it replaces the mode with.
FileMode(is_private_key) ==
    IF is_private_key THEN {"owner_read", "owner_write"}
    ELSE {"owner_read", "owner_write", "group_read"}

\* The directories without the one the runtime works in.
GreengrassDirs_NoWorkRoot ==
    <<"", "config", "certs", "logs", "work", "packages", "deployments">>

\* The directories create_directory_structure creates, in its order.
GreengrassDirs ==
    <<"", "config", "certs", "logs", "work", "packages", "deployments", "ggc-root">>

\* create_directories throws at the first path that is a regular file; the
\* directories before it have been created.
RECURSIVE MakeDirsFrom(_, _)
MakeDirsFrom(f, i) ==
    IF i > Len(GreengrassDirs) THEN [fs |-> f, ok |-> TRUE]
    ELSE IF HasFile(f, <<"", GreengrassDirs[i], "">>) THEN [fs |-> f, ok |-> FALSE]
    ELSE MakeDirsFrom([f EXCEPT !.dirs = @ \cup {GreengrassDirs[i]}], i + 1)

\* ConfigGenerator::create_directory_structure; denied: the root refuses
\* the first mkdir or the chmod.
create_directory_structure(f, denied) ==
    IF denied THEN [fs |-> f, ok |-> FALSE] ELSE MakeDirsFrom(f, 1)

\* ConfigGenerator::write_file: the stream truncates the file, which keeps
\* its mode, or creates it with the mode the umask leaves.
write_file(f, key, content) ==
    [f EXCEPT !.files = [k \in DOMAIN f.files \cup {key} |->
        IF k = key
        THEN [content |-> content,
              mode |-> IF key \in DOMAIN f.files THEN f.files[key].mode ELSE DefaultMode]
        ELSE f.files[k]]]

\* ConfigGenerator::set_file_permissions: the mode is replaced; denied:
\* std::filesystem::permissions throws, which is logged and not reported.
set_file_permissions(f, key, is_private_key, denied) ==
    IF denied THEN f ELSE [f EXCEPT !.files[key].mode = FileMode(is_private_key)]

\* write_file and, after it succeeded, set_file_permissions.
WriteWithMode(f, key, content, is_private_key, fault) ==
    set_file_permissions(write_file(f, key, content), key, is_private_key, fault = "chmod")

\* Files outside the root a record's root_ca_path may name.
ExternalFiles == [p \in {"/etc/ssl/AmazonRootCA1.pem"} |-> <<<<"pem", "CA-FROM-FILE">>>>]

\* write_certificates, the root CA content: the file's when the value names
\* an existing file, else the value itself.
RootCaContent(rec) ==
    IF rec.root_ca_path \in DOMAIN ExternalFiles THEN ExternalFiles[rec.root_ca_path]
    ELSE <<<<"pem", rec.root_ca_path>>>>

CertKey(rec) == <<"certs", rec.thing_name, ".cert.pem">>
PrivateKeyKey(rec) == <<"certs", rec.thing_name, ".private.key">>
RootCaKey == <<"certs", "root", ".ca.pem">>

\* ConfigGenerator::write_certificates; fault names the file whose stream
\* does not open ("none": all open).
write_certificates(f, rec, fault) ==
    IF fault = "cert" THEN [fs |-> f, ok |-> FALSE]
    ELSE LET f1 == WriteWithMode(f, CertKey(rec), <<<<"pem", rec.certificate_pem>>>>,
                                FALSE, fault)
         IN IF fault = "key" THEN [fs |-> f1, ok |-> FALSE]
            ELSE LET f2 == WriteWithMode(f1, PrivateKeyKey(rec),
                                         <<<<"pem", rec.private_key_pem>>>>, TRUE, fault)
                 IN IF fault = "ca" THEN [fs |-> f2, ok |-> FALSE]
                    ELSE [fs |-> WriteWithMode(f2, RootCaKey, RootCaContent(rec),
                                                FALSE, fault),
                          ok |-> TRUE]

\* The version is written as the record holds it, empty or not.
NucleusVersion_AsGiven(rec) == rec.nucleus_version

\* device_config.nucleus_version.empty() ? "2.9.0" : device_config.nucleus_version
NucleusVersion(rec) == IF rec.nucleus_version = "" THEN "2.9.0" ELSE rec.nucleus_version

\* ConfigGenerator::generate_yaml_config_content, one <<key, value>> per line.
generate_yaml_config_content(rec) ==
    <<  <<"system:", "">>,
        <<"certificateFilePath:",
          Quote(GreengrassPath \o "/certs/" \o rec.thing_name \o ".cert.pem")>>,
        <<"privateKeyPath:",
          Quote(GreengrassPath \o "/certs/" \o rec.thing_name \o ".private.key")>>,
        <<"rootCaPath:", Quote(GreengrassPath \o "/certs/root.ca.pem")>>,
        <<"rootpath:", Quote(GreengrassPath)>>,
        <<"thingName:", Quote(rec.thing_name)>>,
        <<"services:", "">>,
        <<"aws.greengrass.Nucleus:", "">>,
        <<"version:", Quote(NucleusVersion(rec))>>,
        <<"configuration:", "">>,
        <<"awsRegion:", Quote(rec.aws_region)>>,
        <<"iotRoleAlias:", Quote(rec.role_alias)>>,
        <<"iotDataEndpoint:", Quote(rec.iot_endpoint)>>,
        <<"iotCredEndpoint:", Quote(rec.role_alias_endpoint)>> >>
    \o (IF rec.mqtt_port # <<>>
        THEN << <<"mqtt:", "">>, <<"port:", ToString(rec.mqtt_port[1])>> >> ELSE <<>>)
    \o (IF rec.proxy_url # <<>>
        THEN << <<"networkProxy:", "">>, <<"proxy:", "">>, <<"url:", Quote(rec.proxy_url[1])>> >>
        ELSE <<>>)
    \o << <<"logging:", "">>, <<"level:", Quote("INFO")>>, <<"fileSizeKB:", "1024">>,
          <<"totalLogsSizeKB:", "25600">>, <<"format:", Quote("JSON")>> >>
    \o (IF rec.deployment_group # ""
        THEN << <<"deploymentPollingFrequency:", "15">>,
                <<"componentStoreMaxSizeBytes:", "10737418240">>,
                <<"deploymentStatusKeepAliveFrequency:", "60">> >>
        ELSE <<>>)

\* ConfigGenerator::generate_greengrass_v2_config
generate_greengrass_v2_config(f, rec, fault) ==
    IF fault = "config" THEN [fs |-> f, ok |-> FALSE]
    ELSE [fs |-> WriteWithMode(f, ConfigKey(".yaml"), generate_yaml_config_content(rec),
                               FALSE, fault),
          ok |-> TRUE]

\* ConfigGenerator::validate_configuration
validate_configuration(f) ==
    /\ HasFile(f, ConfigKey(".yaml"))
    /\ \E key \in FilesIn(f, "certs") : Extension(key) \in {".pem", ".key"}

\* validate_configuration called on its own: the value it returns and the
\* last_error_ it leaves; threw: std::filesystem::directory_iterator throws
\* because the certs path is not a directory.
validate_configuration_call(f) ==
    IF ~(HasFile(f, ConfigKey(".yaml")))
    THEN [threw |-> FALSE, ok |-> FALSE, last_error |-> "config.yaml does not exist"]
    ELSE IF "certs" \notin f.dirs
    THEN [threw |-> TRUE, ok |-> FALSE, last_error |-> ""]
    ELSE IF validate_configuration(f)
    THEN [threw |-> FALSE, ok |-> TRUE, last_error |-> ""]
    ELSE [threw |-> FALSE, ok |-> FALSE,
          last_error |-> "No certificates found in certs directory"]

\* What goes wrong in a call: nothing, the directories cannot be created, one
\* of the four files cannot be opened, or the modes cannot be changed.
GenFaults == {"none", "mkdir", "cert", "key", "ca", "config", "chmod"}

\* Every step is run whatever the steps before it returned.
generate_config_KeepsGoing(f, rec, fault) ==
    LET s1 == create_directory_structure(f, fault = "mkdir")
        s2 == write_certificates(s1.fs, rec, fault)
        s3 == generate_greengrass_v2_config(s2.fs, rec, fault)
        ok == s1.ok /\ s2.ok /\ s3.ok /\ validate_configuration(s3.fs)
    IN [fs |-> s3.fs, success |-> ok,
        error_message |-> IF ok THEN "" ELSE "Failed to generate configuration"]

\* ConfigGenerator::generate_config: the tree it leaves and the GeneratedConfig
\* it returns.
generate_config(f, rec, fault) ==
    LET s1 == create_directory_structure(f, fault = "mkdir")
        s2 == write_certificates(s1.fs, rec, fault)
        s3 == generate_greengrass_v2_config(s2.fs, rec, fault)
    IN IF ~s1.ok
       THEN [fs |-> s1.fs, success |-> FALSE,
             error_message |-> "Failed to create directory structure"]
       ELSE IF ~s2.ok
       THEN [fs |-> s2.fs, success |-> FALSE,
             error_message |-> "Failed to open file for writing: " \o fault]
       ELSE IF ~s3.ok
       THEN [fs |-> s3.fs, success |-> FALSE,
             error_message |-> "Failed to open file for writing: " \o fault]
       ELSE IF ~validate_configuration(s3.fs)
       THEN [fs |-> s3.fs, success |-> FALSE,
             error_message |-> "No certificates found in certs directory"]
       ELSE [fs |-> s3.fs, success |-> TRUE, error_message |-> ""]

-----------------------------------------------------------------------------
(* ConfigDatabase *)

NoRecord ==
    [device_id |-> "", thing_name |-> "", iot_endpoint |-> "", aws_region |-> "",
     root_ca_path |-> "", certificate_pem |-> "", private_key_pem |-> "",
     role_alias |-> "", role_alias_endpoint |-> "", nucleus_version |-> "",
     deployment_group |-> "", mqtt_port |-> <<>>, proxy_url |-> <<>>]

DeviceIdentifier == "aabbccddeeff"   \* what get_device_identifier() returns

\* ConfigDatabase::get_device_config on a connected store; query_ok: the
\* statement could be prepared and stepped.
get_device_config(d, device_id, query_ok) ==
    IF ~query_ok
    THEN [found |-> FALSE, config |-> NoRecord, last_error |-> "Failed to prepare statement"]
    ELSE IF device_id \in DOMAIN d.device_config
    THEN [found |-> TRUE, config |-> d.device_config[device_id], last_error |-> ""]
    ELSE [found |-> FALSE, config |-> NoRecord, last_error |-> ""]

\* The identifier is looked up as if it were the device id.
get_device_config_by_identifier_AsDeviceId(d, identifier, query_ok) ==
    get_device_config(d, identifier, query_ok)

\* ConfigDatabase::get_device_config_by_identifier on a connected store.
get_device_config_by_identifier(d, identifier, query_ok) ==
    IF ~query_ok
    THEN [found |-> FALSE, config |-> NoRecord,
          last_error |-> "Failed to prepare identifier lookup"]
    ELSE IF identifier \in DOMAIN d.device_identifiers
              /\ d.device_identifiers[identifier] # ""
    THEN get_device_config(d, d.device_identifiers[identifier], query_ok)
    ELSE [found |-> FALSE, config |-> NoRecord, last_error |-> ""]

\* main, the lookup of step 3: by identifier, then the "default" device.
LookupDevice(d, query_ok) ==
    LET by_id == get_device_config_by_identifier(d, DeviceIdentifier, query_ok)
        dflt == get_device_config(d, "default", query_ok)
    IN IF by_id.found THEN by_id
       ELSE IF dflt.found THEN dflt
       ELSE [dflt EXCEPT !.last_error =
                IF dflt.last_error # "" THEN dflt.last_error ELSE by_id.last_error]

-----------------------------------------------------------------------------
(* ConnectivityChecker *)

\* What the network answers: DNS, the trust-anchor host, whether a custom
\* endpoint is set (TEST_MODE), and whether the endpoint tried answers.
Nets == [dns : BOOLEAN, anchor : BOOLEAN, custom : BOOLEAN, endpoint : BOOLEAN]

\* ConnectivityChecker::check_connectivity
check_connectivity(net) ==
    IF ~net.dns
    THEN [is_connected |-> FALSE, dns_works |-> FALSE, https_works |-> FALSE,
          error_message |-> "DNS resolution failed"]
    ELSE IF ~net.anchor
    THEN [is_connected |-> FALSE, dns_works |-> TRUE, https_works |-> FALSE,
          error_message |-> "HTTPS connectivity check failed"]
    ELSE IF net.custom /\ ~net.endpoint
    THEN [is_connected |-> FALSE, dns_works |-> TRUE, https_works |-> TRUE,
          error_message |-> "Failed to connect to custom IoT endpoint"]
    ELSE IF ~net.custom /\ ~net.endpoint
    THEN [is_connected |-> FALSE, dns_works |-> TRUE, https_works |-> TRUE,
          error_message |-> "Failed to connect to any AWS IoT endpoint"]
    ELSE [is_connected |-> TRUE, dns_works |-> TRUE, https_works |-> TRUE,
          error_message |-> ""]

-----------------------------------------------------------------------------
(* GreengrassProvisioner::provision, its sub-steps in order: the progress  *)
(* it reports before the sub-step and the error the sub-step fails with.   *)

ProvisionSteps ==
    << [pct |-> 0, message |-> "Initializing provisioning process",
        error |-> "Failed to create Greengrass user and group"],
       [pct |-> 20, message |-> "Downloading Greengrass nucleus",
        error |-> "Failed to download Greengrass nucleus"],
       [pct |-> 40, message |-> "Installing Greengrass nucleus",
        error |-> "Failed to install Greengrass nucleus"],
       [pct |-> 60, message |-> "Configuring systemd service",
        error |-> "Failed to configure systemd service"],
       [pct |-> 80, message |-> "Starting Greengrass service",
        error |-> "Failed to start Greengrass service"],
       [pct |-> 90, message |-> "Verifying Greengrass connection",
        error |-> "Failed to verify Greengrass connection"] >>

NucleusJar == <<"lib", "Greengrass", ".jar">>

\* provision step 2 and download_greengrass_nucleus: the lib directory is
\* created, and the jar is there after a download that succeeded.
DownloadNucleus(f, ok) ==
    IF HasFile(f, NucleusJar) THEN f
    ELSE LET made == [f EXCEPT !.dirs = @ \cup {"lib"}]
         IN IF ok THEN [made EXCEPT !.files = [k \in DOMAIN f.files \cup {NucleusJar} |->
                          IF k = NucleusJar
                          THEN [content |-> <<<<"jar", "Greengrass">>>>, mode |-> DefaultMode]
                          ELSE f.files[k]]]
            ELSE made

\* The tree after sub-step k of provision ran with outcome ok.
ProvisionEffect(f, k, ok) == IF k = 2 THEN DownloadNucleus(f, ok) ELSE f

\* Whether sub-step k of provision fails: the download is skipped, and so
\* cannot fail, when the jar is already there.
ProvisionStepFails(f, k, ok) == ~ok /\ ~(k = 2 /\ HasFile(f, NucleusJar))

-----------------------------------------------------------------------------
(* Initial states *)

File(content) == [content |-> content, mode |-> DefaultMode]

EmptyRoot == [dirs |-> {""}, files |-> <<>>]

\* A root holding only a config directory with a valid config.yaml.
ConfigOnlyRoot ==
    [dirs |-> {"", "config"},
     files |-> (ConfigKey(".yaml") :>
                  File(<< <<"system:", "">>, <<"services:", "">>, <<"thingName:", "Old">> >>))]

\* A root where a non-empty regular file sits at the certs path.
CertsIsFileRoot ==
    [dirs |-> {"", "config", "ggc-root"},
     files |-> (ConfigKey(".yaml") :> File(<< <<"system:", "">>, <<"services:", "">> >>))
               @@ (<<"", "certs", "">> :> File(<< <<"text", "x">> >>))]

\* A Greengrass v1 installation: JSON configuration, .crt and .key files.
V1Root ==
    [dirs |-> {"", "config", "certs", "ggc-root"},
     files |-> (ConfigKey(".json") :>
                  File(<< <<"coreThing", "">>, <<"coreThing.thingName", "Legacy">> >>))
               @@ (<<"certs", "core", ".crt">> :> File(<< <<"pem", "C">> >>))
               @@ (<<"certs", "core", ".key">> :> File(<< <<"pem", "K">> >>))]

\* Everything is in place but config.yaml is empty.
CorruptRoot ==
    [dirs |-> {"", "config", "certs", "ggc-root"},
     files |-> (ConfigKey(".yaml") :> File(<<>>))
               @@ (<<"certs", "core", ".cert.pem">> :> File(<< <<"pem", "C">> >>))
               @@ (<<"certs", "core", ".private.key">> :> File(<< <<"pem", "K">> >>))]

InitTrees == {EmptyRoot, ConfigOnlyRoot, CertsIsFileRoot, V1Root, CorruptRoot}

Thing1 ==
    [device_id |-> "d1", thing_name |-> "Thing1", iot_endpoint |-> "iot.example.com",
     aws_region |-> "us-east-1", root_ca_path |-> "<CA-PEM>",
     certificate_pem |-> "<CERT-PEM>", private_key_pem |-> "<KEY-PEM>",
     role_alias |-> "Role1", role_alias_endpoint |-> "cred.example.com",
     nucleus_version |-> "", deployment_group |-> "", mqtt_port |-> <<8883>>,
     proxy_url |-> <<>>]

DefaultThing ==
    [Thing1 EXCEPT !.device_id = "default", !.thing_name = "DefaultThing",
                   !.root_ca_path = "/etc/ssl/AmazonRootCA1.pem",
                   !.nucleus_version = "2.12.1", !.deployment_group = "group1",
                   !.mqtt_port = <<>>, !.proxy_url = <<"http://proxy:3128">>]

\* The store's tables: device_identifiers and device_config.
InitStores ==
    { [device_identifiers |-> <<>>, device_config |-> <<>>],
      [device_identifiers |-> (DeviceIdentifier :> "d1"), device_config |-> ("d1" :> Thing1)],
      [device_identifiers |-> <<>>, device_config |-> ("default" :> DefaultThing)] }

NewEnv(f) ==
    [det |-> "none", probe |-> "none", store |-> "none", gen |-> "none", act |-> "none",
     calls |-> {}, fs0 |-> f, rec |-> NoRecord, sub |-> 0, component_error |-> ""]

NoPrev == [status |-> -1, exit_code |-> Running]

NoLast == [kind |-> "none", w |-> 0, cs |-> NoStatus, ok |-> FALSE]

NoWriters == [n |-> 0, procs |-> <<>>, finished |-> {}, last |-> NoLast]

NoRead == [fd |-> 0, buf |-> <<>>, last |-> NoFile]

EmptyDisk == [inodes |-> [i \in Inodes |-> <<>>], tmp |-> 0, target |-> 0,
              dir_ok |-> TRUE, flips |-> 0]

Init ==
    /\ pc = "start"
    /\ exit_code = Running
    /\ run = 1
    /\ current_status_ = NoStatus
    /\ disk = EmptyDisk
    /\ fs \in InitTrees
    /\ db \in InitStores
    /\ env = NewEnv(fs)
    /\ trace = <<>>
    /\ prev = NoPrev
    /\ wr = NoWriters
    /\ obs = NoRead

-----------------------------------------------------------------------------
(* main *)

\* A call of update_status or report_error that left record cs.
Emit(cs) ==
    /\ current_status_' = cs
    /\ disk' = write_status_file(disk, cs)
    /\ trace' = Append(trace, cs)

\* Two such calls, one after the other.
Emit2(cs1, cs2) ==
    /\ current_status_' = cs2
    /\ disk' = write_status_file(write_status_file(disk, cs1), cs2)
    /\ trace' = trace \o <<cs1, cs2>>

\* main returns 0 whatever the run did.
Return_AlwaysZero(code) == pc' = "done" /\ exit_code' = 0

\* return <code> from main.
Return(code) == pc' = "done" /\ exit_code' = code

Goto(label) == pc' = label /\ exit_code' = exit_code

\* The catch block reports the failure without what the exception said.
CatchException_NoDetail(cs, what) == report_error(cs, "Provisioning failed", "")

\* catch (const std::exception& e): report_error("Provisioning failed", e.what())
CatchException(cs, what) == report_error(cs, "Provisioning failed", what)

\* catch (...): report_error("Provisioning failed", "Unknown error")
CatchUnknown(cs) == report_error(cs, "Provisioning failed", "Unknown error")

\* The short-circuit of step 1 is never taken.
IsProvisioned_Never(st) == FALSE

\* if (prov_status.is_provisioned)
IsProvisioned(st) == st.is_provisioned

\* The probe's result is not looked at.
NotConnected_Ignored(r) == FALSE

\* if (!conn_result.is_connected)
NotConnected(r) == ~r.is_connected

\* The generator's result is not looked at.
GenerationFailed_Ignored(g) == FALSE

\* if (!generated_config.success)
GenerationFailed(g) == ~g.success

\* if (!prov_result.success)
ProvisioningFailed(success) == ~success

\* parser.parse(argc, argv): no options, return 1.
ParseArguments ==
    /\ pc = "start"
    /\ \E parsed \in BOOLEAN :
          IF parsed THEN Goto("construct") ELSE Return(1)
    /\ UNCHANGED <<run, current_status_, disk, fs, db, env, trace, prev, wr, obs>>

\* std::make_unique<status::StatusReporter>(options->status_file), outside
\* the try block: an exception of create_directories ends the process.
ConstructReporter ==
    /\ pc = "construct"
    /\ \E created \in BOOLEAN :
          IF created
          THEN Emit(InitialStatus) /\ Goto("step1")
          ELSE Return(Aborted) /\ UNCHANGED <<current_status_, disk, trace>>
    /\ UNCHANGED <<run, fs, db, env, prev, wr, obs>>

\* Step 1: update_status(CHECKING_PROVISIONING)
BeginCheck ==
    /\ pc = "step1"
    /\ Emit(update_status(current_status_, CHECKING_PROVISIONING, NoMessage, NoProgress))
    /\ Goto("detect")
    /\ UNCHANGED <<run, fs, db, env, prev, wr, obs>>

Detected(st) == IF st.is_provisioned THEN "provisioned" ELSE "not"

\* Step 1: check_provisioning_status, then ALREADY_PROVISIONED and return 0,
\* or step 2's update_status(CHECKING_CONNECTIVITY).
CheckProvisioning ==
    /\ pc = "detect"
    /\ LET st == check_provisioning_status(fs)
       IN IF st.threw
          THEN /\ Emit(CatchException(current_status_, st.details))
               /\ Return(1)
               /\ env' = [env EXCEPT !.det = "threw", !.calls = @ \cup {"detector"},
                                     !.component_error = st.details]
          ELSE IF IsProvisioned(st)
          THEN /\ Emit(update_status(current_status_, ALREADY_PROVISIONED,
                                     "Already provisioned as " \o st.thing_name, NoProgress))
               /\ Return(0)
               /\ env' = [env EXCEPT !.det = Detected(st), !.calls = @ \cup {"detector"}]
          ELSE /\ Emit(update_status(current_status_, CHECKING_CONNECTIVITY,
                                     NoMessage, NoProgress))
               /\ Goto("probe")
               /\ env' = [env EXCEPT !.det = Detected(st), !.calls = @ \cup {"detector"}]
    /\ UNCHANGED <<run, fs, db, prev, wr, obs>>

\* Step 2: check_connectivity, then NO_CONNECTIVITY and return 2, or step 3's
\* update_status(READING_DATABASE).
CheckConnectivity ==
    /\ pc = "probe"
    /\ \E net \in Nets :
          LET r == check_connectivity(net)
          IN /\ env' = [env EXCEPT !.calls = @ \cup {"probe"},
                                   !.probe = IF r.is_connected THEN "connected" ELSE "failed",
                                   !.component_error = r.error_message]
             /\ IF NotConnected(r)
                THEN /\ Emit(update_status(current_status_, NO_CONNECTIVITY,
                                           r.error_message, NoProgress))
                     /\ Return(2)
                ELSE /\ Emit(update_status(current_status_, READING_DATABASE,
                                           NoMessage, NoProgress))
                     /\ Goto("db")
    /\ UNCHANGED <<run, fs, db, prev, wr, obs>>

\* Step 3: db.connect() and the device lookup, then a runtime_error, or step
\* 4's update_status(GENERATING_CONFIG).
ReadDatabase ==
    /\ pc = "db"
    /\ \E connected \in BOOLEAN, query_ok \in BOOLEAN :
          LET r == LookupDevice(db, query_ok)
          IN IF ~connected
             THEN /\ Emit(CatchException(current_status_,
                            "Failed to connect to database: " \o "Cannot open database"))
                  /\ Return(1)
                  /\ env' = [env EXCEPT !.store = "connect_failed",
                                        !.calls = @ \cup {"store"},
                                        !.component_error = "Cannot open database"]
             ELSE IF ~r.found
             THEN /\ Emit(CatchException(current_status_,
                            "No device configuration found in database"))
                  /\ Return(1)
                  /\ env' = [env EXCEPT !.store = "not_found", !.calls = @ \cup {"store"},
                                        !.component_error = r.last_error]
             ELSE /\ Emit(update_status(current_status_, GENERATING_CONFIG,
                                        NoMessage, NoProgress))
                  /\ Goto("gen")
                  /\ env' = [env EXCEPT !.store = "found", !.calls = @ \cup {"store"},
                                        !.rec = r.config]
    /\ UNCHANGED <<run, fs, db, prev, wr, obs>>

\* Step 4: generate_config, then a runtime_error, or step 5's
\* update_status(PROVISIONING).
GenerateConfig ==
    /\ pc = "gen"
    /\ \E fault \in GenFaults :
          LET g == generate_config(fs, env.rec, fault)
          IN /\ fs' = g.fs
             /\ env' = [env EXCEPT !.calls = @ \cup {"materializer"}, !.sub = 1,
                                   !.gen = IF g.success THEN "ok" ELSE "failed",
                                   !.component_error = g.error_message]
             /\ IF GenerationFailed(g)
                THEN /\ Emit(CatchException(current_status_,
                               "Failed to generate configuration: " \o g.error_message))
                     /\ Return(1)
                ELSE /\ Emit(update_status(current_status_, PROVISIONING,
                                           NoMessage, NoProgress))
                     /\ Goto("prov")
    /\ UNCHANGED <<run, db, prev, wr, obs>>

\* The callback reports the provisioner's step as if it were a ServiceStatus.
ProgressCallback_StepAsStatus(cs, percentage, message) ==
    update_status(cs, STARTING, message, percentage)

\* The provisioner's last report moves the record to COMPLETED by itself.
ProgressCallback_StepDrivesPhase(cs, percentage, message) ==
    update_status(cs, IF percentage = 100 THEN COMPLETED ELSE PROVISIONING,
                  message, percentage)

\* The progress callback main gives the provisioner.
ProgressCallback(cs, percentage, message) ==
    update_status(cs, PROVISIONING, message, percentage)

\* update_status(COMPLETED, "Greengrass provisioning completed successfully", 100)
Completed(cs) ==
    update_status(cs, COMPLETED, "Greengrass provisioning completed successfully", 100)

\* Step 5: one sub-step of provision: its report_progress, then the sub-step;
\* when it fails provision returns and main throws a runtime_error.
ProvisionStep ==
    /\ pc = "prov"
    /\ env.sub \in DOMAIN ProvisionSteps
    /\ \E ok \in BOOLEAN :
          LET step == ProvisionSteps[env.sub]
              cs == ProgressCallback(current_status_, step.pct, step.message)
              failed == ProvisionStepFails(fs, env.sub, ok)
          IN /\ fs' = ProvisionEffect(fs, env.sub, ok)
             /\ IF failed
                THEN /\ env' = [env EXCEPT !.act = "failed",
                                           !.calls = @ \cup {"activation"},
                                           !.component_error = step.error]
                     /\ IF ProvisioningFailed(FALSE)
                        THEN /\ Emit2(cs, CatchException(cs, "Provisioning failed: "
                                                             \o step.error))
                             /\ Return(1)
                        ELSE /\ Emit2(cs, Completed(cs))
                             /\ Return(0)
                ELSE /\ Emit(cs)
                     /\ Goto("prov")
                     /\ env' = [env EXCEPT !.sub = @ + 1, !.calls = @ \cup {"activation"}]
    /\ UNCHANGED <<run, db, prev, wr, obs>>

\* Step 5: provision reports 100 and returns success; main writes COMPLETED
\* and returns 0.
ProvisionDone ==
    /\ pc = "prov"
    /\ env.sub = Len(ProvisionSteps) + 1
    /\ LET cs == ProgressCallback(current_status_, 100, "Provisioning completed successfully")
       IN IF ProvisioningFailed(TRUE)
          THEN Emit2(cs, CatchException(cs, "Provisioning failed: ")) /\ Return(1)
          ELSE Emit2(cs, Completed(cs)) /\ Return(0)
    /\ env' = [env EXCEPT !.act = "ok"]
    /\ UNCHANGED <<run, fs, db, prev, wr, obs>>

\* The process is started again (the supervisor's restart, a reboot).
NextRun ==
    /\ pc = "done"
    /\ run < MaxRuns
    /\ run' = run + 1
    /\ pc' = "start"
    /\ exit_code' = Running
    /\ prev' = [status |-> current_status_.status, exit_code |-> exit_code]
    /\ current_status_' = NoStatus
    /\ trace' = <<>>
    /\ env' = NewEnv(fs)
    /\ UNCHANGED <<disk, fs, db, wr, obs>>

\* The status directory becomes unwritable, or writable again.
FlipStatusDir ==
    /\ disk.flips < MaxFlips
    /\ disk' = [disk EXCEPT !.dir_ok = ~@, !.flips = @ + 1]
    /\ UNCHANGED <<pc, exit_code, run, current_status_, fs, db, env, trace, prev, wr, obs>>

Next ==
    \/ ParseArguments
    \/ ConstructReporter
    \/ BeginCheck
    \/ CheckProvisioning
    \/ CheckConnectivity
    \/ ReadDatabase
    \/ GenerateConfig
    \/ ProvisionStep
    \/ ProvisionDone
    \/ NextRun
    \/ FlipStatusDir

Spec == Init /\ [][Next]_vars

-----------------------------------------------------------------------------
(* Properties of main *)

Terminal == {ALREADY_PROVISIONED, NO_CONNECTIVITY, COMPLETED, ERROR}

PhaseEdges ==
    { <<STARTING, CHECKING_PROVISIONING>>,
      <<CHECKING_PROVISIONING, ALREADY_PROVISIONED>>,
      <<CHECKING_PROVISIONING, CHECKING_CONNECTIVITY>>,
      <<CHECKING_CONNECTIVITY, NO_CONNECTIVITY>>,
      <<CHECKING_CONNECTIVITY, READING_DATABASE>>,
      <<READING_DATABASE, GENERATING_CONFIG>>,
      <<GENERATING_CONFIG, PROVISIONING>>,
      <<PROVISIONING, COMPLETED>> }
    \cup {<<p, ERROR>> : p \in ServiceStatus \ Terminal}

LastPhase == current_status_.status

ReporterExists == current_status_ # NoStatus

\* C1: the phases written in one run, repeated writes of a phase counted
\* once, are a path of the phase graph from STARTING: every write keeps the
\* phase or follows an edge, no phase comes back after another one, and
\* nothing is written after ALREADY_PROVISIONED, NO_CONNECTIVITY, COMPLETED
\* or ERROR.
C1_PhasePath ==
    /\ trace # <<>> => trace[1].status = STARTING
    /\ \A i \in 1..(Len(trace) - 1) :
          /\ trace[i].status \notin Terminal
          /\ \/ trace[i + 1].status = trace[i].status
             \/ <<trace[i].status, trace[i + 1].status>> \in PhaseEdges
    /\ \A i, j, k \in DOMAIN trace :
          i < j /\ j < k /\ trace[i].status = trace[k].status
             => trace[j].status = trace[i].status

\* A run wrote all seven phases of the long path, PROVISIONING several times.
C1_Witness ==
    /\ pc = "done"
    /\ LastPhase = COMPLETED
    /\ {trace[i].status : i \in DOMAIN trace}
          = {STARTING, CHECKING_PROVISIONING, CHECKING_CONNECTIVITY, READING_DATABASE,
             GENERATING_CONFIG, PROVISIONING, COMPLETED}
    /\ Cardinality({i \in DOMAIN trace : trace[i].status = PROVISIONING}) > 2

\* C2: in a run that follows a run that reached COMPLETED, nothing under the
\* root changes, only the detector is called, and the run ends with
\* ALREADY_PROVISIONED and exit code 0.
C2_Idempotent ==
    prev.status = COMPLETED =>
        /\ fs = env.fs0
        /\ env.calls \subseteq {"detector"}
        /\ pc = "done" /\ ReporterExists =>
              LastPhase = ALREADY_PROVISIONED /\ exit_code = 0

\* The second run ended after a first one that had materialized the files.
C2_Witness ==
    /\ prev.status = COMPLETED
    /\ pc = "done"
    /\ LastPhase = ALREADY_PROVISIONED
    /\ HasFile(fs, ConfigKey(".yaml"))

\* C3: COMPLETED is written, with progress 100, only in a run where the
\* detector reported not provisioned, the probe connected, a record was
\* found, and the generator and the provisioner returned success.
C3_CompletedOnlyAfterAllSteps ==
    \A i \in DOMAIN trace :
        trace[i].status = COMPLETED =>
            /\ trace[i].progress_percentage = 100
            /\ env.det = "not"
            /\ env.probe = "connected"
            /\ env.store = "found"
            /\ env.gen = "ok"
            /\ env.act = "ok"

C3_Witness ==
    /\ LastPhase = COMPLETED
    /\ current_status_.progress_percentage = 100
    /\ env.act = "ok"

\* C4: once the probe has reported not connected the run is over with phase
\* NO_CONNECTIVITY, the probe's error message and exit code 2; the store,
\* the generator and the provisioner were not called and the root is as it
\* was when the run began.
C4_NoConnectivity ==
    env.probe = "failed" =>
        /\ pc = "done"
        /\ exit_code = 2
        /\ LastPhase = NO_CONNECTIVITY
        /\ current_status_.message = env.component_error
        /\ env.calls \cap {"store", "materializer", "activation"} = {}
        /\ fs = env.fs0

C4_Witness ==
    /\ env.probe = "failed"
    /\ LastPhase = NO_CONNECTIVITY
    /\ current_status_.message = "HTTPS connectivity check failed"

\* C5: when main has returned, the exit code is 0 exactly when the last
\* phase written is ALREADY_PROVISIONED or COMPLETED, 2 exactly when it is
\* NO_CONNECTIVITY and 1 exactly when it is ERROR, for a run that got past
\* argument parsing; a run that did not exits non-zero.
C5_ExitCodes ==
    pc = "done" =>
        /\ ReporterExists =>
              /\ exit_code = 0 <=> LastPhase \in {ALREADY_PROVISIONED, COMPLETED}
              /\ exit_code = 2 <=> LastPhase = NO_CONNECTIVITY
              /\ exit_code = 1 <=> LastPhase = ERROR
        /\ trace = <<>> => exit_code # 0

\* Runs have ended with each of 0, 1 and 2 (this one after an earlier run).
C5_Witness ==
    /\ pc = "done"
    /\ exit_code = 2
    /\ LastPhase = NO_CONNECTIVITY
    /\ prev.exit_code = 1
    /\ prev.status = ERROR

\* A step of the run failed: the store, the generator, the provisioner, or an
\* exception of the detector.
ComponentFailed ==
    \/ env.det = "threw"
    \/ env.store \in {"connect_failed", "not_found"}
    \/ env.gen = "failed"
    \/ env.act = "failed"

\* What main puts in front of a component's error text.
DetailPrefixes ==
    {"", "Failed to connect to database: ", "Failed to generate configuration: ",
     "Provisioning failed: "}

\* The error detail holds the failing component's own error text.
CarriesComponentError ==
    \E prefix \in DetailPrefixes :
        current_status_.error_details = prefix \o env.component_error

\* C6: a failed step ends the run with ERROR, a non-empty message,
\* exit code 1 and an error detail that carries the failing component's own
\* error text whenever the component gave one.
C6_FailureCarriesComponentError ==
    ComponentFailed =>
        /\ pc = "done"
        /\ exit_code = 1
        /\ LastPhase = ERROR
        /\ current_status_.message # ""
        /\ env.component_error # "" => CarriesComponentError

\* The failing branches of main: the probe is not connected, the store does
\* not open, no record is found, generate_config fails, provision fails, a
\* component throws a std::exception, something else is thrown.
FailingBranches ==
    {"probe", "connect", "not_found", "generate", "provision", "exception", "unknown"}

\* The failing branch the run took, "none" when it took none.
FailingBranch ==
    CASE env.det = "threw" -> "exception"
      [] env.probe = "failed" -> "probe"
      [] env.store = "connect_failed" -> "connect"
      [] env.store = "not_found" -> "not_found"
      [] env.gen = "failed" -> "generate"
      [] env.act = "failed" -> "provision"
      [] OTHER -> "none"

\* The texts e.what() can hold in each branch that ends in a catch block.
WhatOf(branch) ==
    CASE branch = "connect" -> {"Failed to connect to database: Cannot open database"}
      [] branch = "not_found" -> {"No device configuration found in database"}
      [] branch = "generate" ->
            {"Failed to generate configuration: " \o generate_config(f, Thing1, fault).error_message :
                f \in InitTrees, fault \in GenFaults}
      [] branch = "provision" ->
            {"Provisioning failed: " \o ProvisionSteps[k].error : k \in DOMAIN ProvisionSteps}
      [] branch = "exception" -> {check_provisioning_status(f).details : f \in InitTrees}
      [] OTHER -> {}

\* The status records a branch can leave.
RecordsOf(branch) ==
    CASE branch = "probe" ->
            {update_status(InitialStatus, NO_CONNECTIVITY,
                           check_connectivity(net).error_message, NoProgress) : net \in Nets}
      [] branch = "unknown" -> {CatchUnknown(InitialStatus)}
      [] OTHER -> {CatchException(InitialStatus, what) : what \in WhatOf(branch)}

StatusAndMessage(cs) == <<cs.status, cs.message>>

WithDetail(cs) == <<cs.status, cs.message, cs.error_details>>

\* The pairs and the triples each branch can leave.
BranchPairs ==
    [branch \in FailingBranches |-> {StatusAndMessage(cs) : cs \in RecordsOf(branch)}]

BranchTriples ==
    [branch \in FailingBranches |-> {WithDetail(cs) : cs \in RecordsOf(branch)}]

\* C27 as stated: the (status, message) pair a failing branch leaves in the
\* status record is a pair no other failing branch leaves.
C27_BranchesDifferInStatusAndMessage ==
    pc = "done" /\ FailingBranch # "none" =>
        \A other \in FailingBranches \ {FailingBranch} :
            StatusAndMessage(current_status_) \notin BranchPairs[other]

\* C27: the probe's branch leaves NO_CONNECTIVITY with the probe's message;
\* every other failing branch leaves the same pair (ERROR, "Provisioning
\* failed") and differs from the other branches in the error detail, so the
\* (status, message, error_details) triple of a failing branch is one no
\* other failing branch leaves.
C27_BranchesDifferInDetail ==
    pc = "done" /\ FailingBranch # "none" =>
        /\ WithDetail(current_status_) \in BranchTriples[FailingBranch]
        /\ \A other \in FailingBranches \ {FailingBranch} :
              WithDetail(current_status_) \notin BranchTriples[other]
        /\ FailingBranch # "probe" =>
              StatusAndMessage(current_status_) = <<ERROR, "Provisioning failed">>

\* generate_config failed: the pair is the one of every catch block, the
\* detail names the generator.
C27_Witness ==
    /\ pc = "done"
    /\ FailingBranch = "generate"
    /\ StatusAndMessage(current_status_) = <<ERROR, "Provisioning failed">>
    /\ current_status_.error_details =
           "Failed to generate configuration: Failed to create directory structure"

\* The records a step appended to the trace of status writes.
Written == SubSeq(trace', Len(trace) + 1, Len(trace'))

\* C28: in the steps in which the detector, the probe, the record store and
\* the materializer run, the status record is written once, by main after the
\* component returned, along an edge of main's phases or to ERROR; every
\* write made while provision runs, through the progress callback, finds and
\* leaves status PROVISIONING and the error detail as it was.
C28_OnlyMainDrivesPhases ==
    [][ /\ pc \in {"detect", "probe", "db", "gen"} /\ trace' # trace =>
              /\ Written = <<current_status_'>>
              /\ \/ <<current_status_.status, current_status_'.status>> \in PhaseEdges
                 \/ current_status_'.status = ERROR
        /\ pc = "prov" /\ trace' # trace =>
              /\ current_status_.status = PROVISIONING
              /\ Written[1].status = PROVISIONING
              /\ Written[1].error_details = current_status_.error_details
              /\ Len(Written) = 2 => pc' = "done" /\ Written[2].status \in {COMPLETED, ERROR}
      ]_vars

\* The callback of the second sub-step has written.
C28_Witness ==
    /\ pc = "prov"
    /\ env.sub = 3
    /\ env.calls = {"detector", "probe", "store", "materializer", "activation"}
    /\ current_status_.status = PROVISIONING
    /\ current_status_.message = "Downloading Greengrass nucleus"
    /\ current_status_.progress_percentage = 20

-----------------------------------------------------------------------------
(* Status writers as processes.  Each of wr.n processes owns one           *)
(* StatusReporter on the same path and runs write_status_file one system   *)
(* call at a time; a reader polls the target path, also one call at a      *)
(* time.                                                                    *)

mainVars == <<pc, exit_code, run, current_status_, fs, db, env, trace, prev>>

NewProc == [pc |-> "new", cs |-> NoStatus, fd |-> 0, pos |-> 0, calls |-> 0,
            kind |-> "none", ok |-> FALSE]

Writers == 1..wr.n

\* Inodes some process holds open.
OpenFds(procs, reader) == ({procs[w].fd : w \in DOMAIN procs} \cup {reader.fd}) \ {0}

\* The calls a process makes on its reporter.
Calls(w) ==
    { [op |-> "update_status", status |-> CHECKING_CONNECTIVITY,
       message |-> "From reporter " \o ToString(w), progress |-> 25],
      [op |-> "update_status", status |-> PROVISIONING,
       message |-> NoMessage, progress |-> NoProgress],
      [op |-> "report_error", status |-> ERROR,
       message |-> "Provisioning failed", progress |-> NoProgress] }

ApplyCall(cs, c, w) ==
    IF c.op = "report_error"
    THEN report_error(cs, c.message, "Detail from reporter " \o ToString(w))
    ELSE update_status(cs, c.status, c.message, c.progress)

RECURSIVE CallsMade(_, _)
CallsMade(procs, n) == IF n = 0 THEN 0 ELSE procs[n].calls + CallsMade(procs, n - 1)

\* No process is inside a call.
AllQuiet == \A w \in Writers : wr.procs[w].pc \in {"new", "idle"}

\* A call begins: the record is updated and write_status_file is entered.
Begin(w, cs, kind) ==
    /\ wr' = [wr EXCEPT !.procs[w].cs = cs,
                        !.procs[w].pc = "open",
                        !.procs[w].calls = IF kind = "call" THEN @ + 1 ELSE @,
                        !.procs[w].kind = kind]
    /\ UNCHANGED <<disk, obs>>

\* A call returns: write_status_file is left, with or without a new file.
Returned(p, w, ok) ==
    [wr EXCEPT !.procs[w] = [p EXCEPT !.pc = "idle", !.fd = 0, !.pos = 0, !.ok = ok],
               !.finished = IF ok THEN @ \cup {status_json(p.cs)} ELSE @,
               !.last = [kind |-> p.kind, w |-> w, cs |-> p.cs, ok |-> ok]]

\* StatusReporter::StatusReporter
WConstruct(w) ==
    /\ wr.procs[w].pc = "new"
    /\ Begin(w, InitialStatus, "construct")
    /\ UNCHANGED mainVars

\* update_status or report_error, up to write_status_file
WCall(w) ==
    /\ wr.procs[w].pc = "idle"
    /\ CallsMade(wr.procs, wr.n) < MaxCalls
    /\ \E c \in Calls(w) : Begin(w, ApplyCall(wr.procs[w].cs, c, w), "call")
    /\ UNCHANGED mainVars

\* std::ofstream file(temp_file) and the is_open test
WOpen(w) ==
    LET p == wr.procs[w] IN
    /\ p.pc = "open"
    /\ IF CanOpen(disk)
       THEN LET d == OpenTrunc(disk, OpenFds(wr.procs, obs))
            IN /\ disk' = d
               /\ wr' = [wr EXCEPT !.procs[w].pc = "write",
                                   !.procs[w].fd = d.tmp,
                                   !.procs[w].pos = 0]
       ELSE /\ disk' = disk
            /\ wr' = Returned(p, w, FALSE)
    /\ UNCHANGED obs
    /\ UNCHANGED mainVars

\* file << status_json.dump(4) << std::endl, one write(2); file.close()
\* after the last one.
WWrite(w) ==
    LET p == wr.procs[w]
        k == p.pos + 1
        last == k = NumBlocks
        procs == [wr.procs EXCEPT ![w].pos = k,
                                  ![w].fd = IF last THEN 0 ELSE @,
                                  ![w].pc = IF last THEN "rename" ELSE @]
    IN /\ p.pc = "write"
       /\ disk' = Reclaim(WriteBlock(disk, p.fd, k, Blocks(status_json(p.cs))[k]),
                          OpenFds(procs, obs))
       /\ wr' = [wr EXCEPT !.procs = procs]
       /\ UNCHANGED obs
       /\ UNCHANGED mainVars

\* std::filesystem::rename, std::filesystem::permissions and the catch block
WRename(w) ==
    LET p == wr.procs[w] IN
    /\ p.pc = "rename"
    /\ IF RenameThrows(disk)
       THEN /\ disk' = disk
            /\ wr' = Returned(p, w, FALSE)
       ELSE /\ disk' = Reclaim(Rename(disk), OpenFds(wr.procs, obs))
            /\ wr' = Returned(p, w, TRUE)
    /\ UNCHANGED obs
    /\ UNCHANGED mainVars

\* The reader opens the status file.
ROpen ==
    /\ obs.fd = 0
    /\ IF disk.target = 0
       THEN obs' = [obs EXCEPT !.last = NoFile]
       ELSE obs' = [obs EXCEPT !.fd = disk.target, !.buf = <<>>]
    /\ UNCHANGED <<disk, wr>>
    /\ UNCHANGED mainVars

\* One read(2): the next block, or end of file and close.
RRead ==
    LET content == disk.inodes[obs.fd] IN
    /\ obs.fd # 0
    /\ IF Len(obs.buf) < Len(content)
       THEN /\ obs' = [obs EXCEPT !.buf = Append(@, content[Len(obs.buf) + 1])]
            /\ disk' = disk
       ELSE /\ obs' = [fd |-> 0, buf |-> <<>>, last |-> obs.buf]
            /\ disk' = Reclaim(disk, OpenFds(wr.procs, [obs EXCEPT !.fd = 0]))
    /\ UNCHANGED wr
    /\ UNCHANGED mainVars

InitWriters(n) ==
    /\ pc = "start"
    /\ exit_code = Running
    /\ run = 1
    /\ current_status_ = NoStatus
    /\ disk = EmptyDisk
    /\ fs = EmptyRoot
    /\ db = [device_identifiers |-> <<>>, device_config |-> <<>>]
    /\ env = NewEnv(fs)
    /\ trace = <<>>
    /\ prev = NoPrev
    /\ wr = [NoWriters EXCEPT !.n = n, !.procs = [w \in 1..n |-> NewProc]]
    /\ obs = NoRead

InitSingle == InitWriters(1)

InitMulti == InitWriters(MaxWriters)

\* One system call of a process inside write_status_file.
WriterStep(w) == WOpen(w) \/ WWrite(w) \/ WRename(w)

\* One reporter, a polling reader and a directory that can stop taking files.
NextSingle ==
    \/ \E w \in Writers : WConstruct(w)
    \/ \E w \in Writers : WCall(w)
    \/ \E w \in Writers : WriterStep(w)
    \/ ROpen
    \/ RRead
    \/ FlipStatusDir

\* Several reporters, their system calls interleaved, and a polling reader.
NextMulti ==
    \/ \E w \in Writers : WConstruct(w)
    \/ \E w \in Writers : WCall(w)
    \/ \E w \in Writers : WriterStep(w)
    \/ ROpen
    \/ RRead

\* Calls issued one after another: a call begins when no other is running.
NextSequential ==
    \/ \E w \in Writers : AllQuiet /\ WConstruct(w)
    \/ \E w \in Writers : AllQuiet /\ WCall(w)
    \/ \E w \in Writers : WriterStep(w)
    \/ FlipStatusDir

SpecSingle == InitSingle /\ [][NextSingle]_vars

SpecMulti == InitMulti /\ [][NextMulti]_vars

SpecSequential == InitMulti /\ [][NextSequential]_vars

-----------------------------------------------------------------------------
(* Properties of the status file *)

\* The document a whole file content holds.
DocumentOf(content) == content[1].doc

\* A file content that is the whole document of a write that finished.
FinishedDocument(content) == IsDocument(content) /\ DocumentOf(content) \in wr.finished

\* The error detail of a document: the key is absent when there is none.
DetailOf(doc) == IF "error_details" \in DOMAIN doc THEN doc.error_details ELSE ""

\* The status file holds phase, message, progress and error detail of cs.
Persisted(cs) ==
    LET content == ReadTarget(disk)
        doc == DocumentOf(content)
    IN /\ IsDocument(content)
       /\ doc.status = status_to_string(cs.status)
       /\ doc.message = cs.message
       /\ doc.progress_percentage = cs.progress_percentage
       /\ DetailOf(doc) = cs.error_details

C8_NoTornRead ==
    obs.last = NoFile \/ IsDocument(obs.last)

-----------------------------------------------------------------------------
(* One StatusReporter called with arbitrary arguments.  env holds the last *)
(* call: its arguments and the record it found; the status directory takes *)
(* every write.                                                             *)

\* Progress arguments: below the range, the declaration's default, the two
\* ends, a value inside, above the range.
ProgressArgs == {-10, NoProgress, 0, 50, 100, 150}

MessageArgs == {NoMessage, "Custom message"}

DetailArgs == {"", "Error details"}

NoCall == [op |-> "none", status |-> STARTING, message |-> "", progress |-> 0,
           details |-> "", before |-> NoStatus, calls |-> 0]

InitReporter ==
    /\ pc = "start"
    /\ exit_code = Running
    /\ run = 1
    /\ current_status_ = NoStatus
    /\ disk = EmptyDisk
    /\ fs = EmptyRoot
    /\ db = [device_identifiers |-> <<>>, device_config |-> <<>>]
    /\ env = NoCall
    /\ trace = <<>>
    /\ prev = NoPrev
    /\ wr = NoWriters
    /\ obs = NoRead

reporterFrame == <<exit_code, run, fs, db, trace, prev, wr, obs>>

\* StatusReporter::StatusReporter
Construct ==
    /\ pc = "start"
    /\ pc' = "constructed"
    /\ current_status_' = InitialStatus
    /\ disk' = write_status_file(disk, InitialStatus)
    /\ env' = [NoCall EXCEPT !.op = "construct"]
    /\ UNCHANGED reporterFrame

\* reporter.update_status(status, message, progress)
UpdateStatus ==
    /\ pc = "constructed"
    /\ env.calls < MaxCalls
    /\ \E status \in ServiceStatus, message \in MessageArgs, progress \in ProgressArgs :
          LET cs == update_status(current_status_, status, message, progress)
          IN /\ current_status_' = cs
             /\ disk' = write_status_file(disk, cs)
             /\ env' = [op |-> "update_status", status |-> status, message |-> message,
                        progress |-> progress, details |-> "",
                        before |-> current_status_, calls |-> env.calls + 1]
    /\ UNCHANGED pc
    /\ UNCHANGED reporterFrame

\* reporter.report_error(error_message, details)
ReportError ==
    /\ pc = "constructed"
    /\ env.calls < MaxCalls
    /\ \E message \in MessageArgs \cup {"x"}, details \in DetailArgs :
          LET cs == report_error(current_status_, message, details)
          IN /\ current_status_' = cs
             /\ disk' = write_status_file(disk, cs)
             /\ env' = [op |-> "report_error", status |-> ERROR, message |-> message,
                        progress |-> 0, details |-> details,
                        before |-> current_status_, calls |-> env.calls + 1]
    /\ UNCHANGED pc
    /\ UNCHANGED reporterFrame

NextReporter ==
    \/ Construct
    \/ UpdateStatus
    \/ ReportError

SpecReporter == InitReporter /\ [][NextReporter]_vars

\* The last call was update_status, resp. report_error.
Updated == env.op = "update_status"

Reported == env.op = "report_error"

\* C11: progress_percentage of the record is in 0..100 in every state, after
\* any sequence of update_status and report_error calls, whatever their
\* progress arguments (negative and above 100 included).
C11_ProgressInRange ==
    /\ current_status_.progress_percentage \in 0..100
    /\ IsDocument(ReadTarget(disk)) =>
          DocumentOf(ReadTarget(disk)).progress_percentage \in 0..100

\* update_status was called with progress 150 after a call with progress -10.
C11_Witness ==
    /\ Updated
    /\ env.progress = 150
    /\ env.calls = MaxCalls
    /\ env.before.progress_percentage \notin {0, 100}
    /\ current_status_.progress_percentage \in 0..100

C13_ReportErrorKeepsProgress ==
    Reported =>
        /\ current_status_.status = ERROR
        /\ current_status_.message = env.message
        /\ current_status_.error_details = env.details
        /\ current_status_.progress_percentage = env.before.progress_percentage

\* report_error came after an update that had left progress 50.
C13_Witness ==
    /\ Reported
    /\ env.before.status = GENERATING_CONFIG
    /\ env.before.progress_percentage = 50
    /\ env.details = "Error details"
    /\ current_status_.progress_percentage = 50

\* The nine fixed messages, one per status other than ERROR.
FixedMessages ==
    (STARTING :> "Service is starting")
    @@ (CHECKING_PROVISIONING :> "Checking if Greengrass is already provisioned")
    @@ (ALREADY_PROVISIONED :> "Greengrass is already provisioned")
    @@ (CHECKING_CONNECTIVITY :> "Checking internet connectivity")
    @@ (NO_CONNECTIVITY :> "No internet connectivity available")
    @@ (READING_DATABASE :> "Reading configuration from database")
    @@ (GENERATING_CONFIG :> "Generating Greengrass configuration")
    @@ (PROVISIONING :> "Provisioning Greengrass device")
    @@ (COMPLETED :> "Provisioning completed successfully")

\* C14: update_status with an empty message records, for each of the nine
\* statuses other than ERROR, that status's fixed non-empty message, and
\* records a non-empty message as given.
C14_DefaultMessages ==
    Updated =>
        /\ env.message = "" /\ env.status # ERROR =>
              /\ current_status_.message = FixedMessages[env.status]
              /\ current_status_.message # ""
        /\ env.message # "" => current_status_.message = env.message

\* update_status(PROVISIONING, "", 50) recorded the fixed message.
C14_Witness ==
    /\ Updated
    /\ env.status = PROVISIONING
    /\ env.message = ""
    /\ env.progress = 50
    /\ current_status_.message = "Provisioning Greengrass device"

C25_DetailOnlyInError ==
    /\ current_status_.error_details # "" => current_status_.status = ERROR
    /\ Updated /\ env.status # ERROR => current_status_.error_details = ""
    /\ pc = "constructed" /\ disk.target # 0 /\ IsDocument(ReadTarget(disk)) =>
          LET doc == ReadTarget(disk)[1].doc
          IN "error_details" \in DOMAIN doc => doc.status = status_to_string(ERROR)

\* report_error with a detail, then update_status to a status other than
\* ERROR: the detail is gone.
C25_Witness ==
    /\ Updated
    /\ env.status # ERROR
    /\ env.before.status = ERROR
    /\ env.before.error_details # ""
    /\ current_status_.error_details = ""

\* C26 as stated: update_status(ERROR, "") substitutes no fixed string, the
\* message of an ERROR record is the one the caller supplied.
C26_ErrorHasNoDefaultMessage ==
    Updated /\ env.status = ERROR => current_status_.message = env.message

\* C26: update_status(ERROR, "") records the fixed message "An error occurred
\* during provisioning"; a non-empty message, and any message given to
\* report_error (the empty one too), is recorded as supplied.
C26_ErrorDefaultMessage ==
    /\ Updated /\ env.status = ERROR =>
          current_status_.message = IF env.message = ""
                                    THEN "An error occurred during provisioning"
                                    ELSE env.message
    /\ Reported => current_status_.message = env.message

C26_Witness ==
    /\ Updated
    /\ env.status = ERROR
    /\ env.message = ""
    /\ current_status_.message = "An error occurred during provisioning"

-----------------------------------------------------------------------------
(* ProvisioningChecker called on a root in any of the shapes below.  env   *)
(* holds the result of the call.                                            *)

\* A part of a tree: directories and files.
Part(dirs, files) == [dirs |-> dirs, files |-> files]

ValidYaml == File(<< <<"system:", "">>, <<"services:", "">>, <<"thingName:", "Core1">> >>)

ValidJson == File(<< <<"coreThing", "">>, <<"coreThing.thingName", "Legacy">> >>)

\* What can be at and under the config path.
ConfigParts ==
    { Part({}, <<>>),
      Part({"config"}, <<>>),
      Part({"config"}, ConfigKey(".yaml") :> ValidYaml),
      Part({"config"}, ConfigKey(".yml") :> ValidYaml),
      Part({"config"}, ConfigKey(".json") :> ValidJson),
      Part({"config"}, ConfigKey(".yaml") :> File(<< <<"system:", "">> >>)),
      Part({"config"}, ConfigKey(".yaml") :> File(<<>>)),
      Part({"config"}, ConfigKey(".json") :> File(<< <<Malformed, "">> >>)),
      Part({"config"}, ConfigKey(".json") :> File(<< <<"other", "">> >>)),
      Part({"config"}, (ConfigKey(".yaml") :> File(<< <<"system:", "">> >>))
                       @@ (ConfigKey(".json") :> ValidJson)),
      Part({"config"}, (ConfigKey(".yaml") :> File(<<>>))
                       @@ (ConfigKey(".json") :> ValidJson)) }

Pem == File(<< <<"pem", "P">> >>)

\* What can be at and under the certs path.
CertParts ==
    { Part({}, <<>>),
      Part({"certs"}, <<>>),
      Part({"certs"}, <<"certs", "core", ".cert.pem">> :> Pem),
      Part({"certs"}, <<"certs", "core", ".private.key">> :> Pem),
      Part({"certs"}, (<<"certs", "core", ".cert.pem">> :> Pem)
                      @@ (<<"certs", "core", ".private.key">> :> Pem)),
      Part({"certs"}, (<<"certs", "core", ".crt">> :> Pem)
                      @@ (<<"certs", "core", ".key">> :> Pem)),
      Part({"certs"}, (<<"certs", "root", ".ca.pem">> :> Pem)
                      @@ (<<"certs", "core", ".key">> :> Pem)),
      Part({}, <<"", "certs", "">> :> File(<<>>)),
      Part({}, <<"", "certs", "">> :> Pem) }

\* What can be at the ggc-root path.
WorkRootParts ==
    { Part({}, <<>>),
      Part({"ggc-root"}, <<>>),
      Part({}, <<"", "ggc-root", "">> :> Pem) }

NoRoot == [dirs |-> {}, files |-> <<>>]

CheckerTrees ==
    { [dirs |-> {""} \cup c.dirs \cup k.dirs \cup r.dirs,
       files |-> c.files @@ k.files @@ r.files] :
         c \in ConfigParts, k \in CertParts, r \in WorkRootParts }
    \cup {NoRoot}

NotChecked == [op |-> "none", result |-> NotProvisioned("", <<>>)]

InitChecker ==
    /\ pc = "start"
    /\ exit_code = Running
    /\ run = 1
    /\ current_status_ = NoStatus
    /\ disk = EmptyDisk
    /\ fs \in CheckerTrees
    /\ db = [device_identifiers |-> <<>>, device_config |-> <<>>]
    /\ env = NotChecked
    /\ trace = <<>>
    /\ prev = NoPrev
    /\ wr = NoWriters
    /\ obs = NoRead

\* prov_checker.check_provisioning_status()
CheckStatus ==
    /\ pc = "start"
    /\ pc' = "checked"
    /\ env' = [op |-> "check", result |-> check_provisioning_status(fs)]
    /\ UNCHANGED <<exit_code, run, current_status_, disk, fs, db, trace, prev, wr, obs>>

\* checker.validate_config_file()
ValidateConfig ==
    /\ pc = "start"
    /\ pc' = "validated"
    /\ env' = [op |-> "validate", result |-> validate_config_file(fs)]
    /\ UNCHANGED <<exit_code, run, current_status_, disk, fs, db, trace, prev, wr, obs>>

NextChecker == CheckStatus \/ ValidateConfig

SpecChecker == InitChecker /\ [][NextChecker]_vars

\* The call returned a result (no exception left it).
CheckReturned == env.op = "check" /\ ~env.result.threw

\* Some recognized configuration file exists.
ConfigPresent(f) ==
    \E ext \in {".yaml", ".yml", ".json"} : <<"config", "config", ext>> \in DOMAIN f.files

\* Some recognized configuration file exists and passes its validation.
ConfigValid(f) ==
    \E ext \in {".yaml", ".yml", ".json"} :
        /\ <<"config", "config", ext>> \in DOMAIN f.files
        /\ LET keys == Keys(f.files[<<"config", "config", ext>>].content)
           IN IF ext = ".json"
              THEN Malformed \notin keys /\ keys \cap {"coreThing", "system"} # {}
              ELSE {"system:", "services:"} \subseteq keys

\* The certs directory holds a certificate-pattern and a key-pattern file.
CertAndKeyPresent(f) ==
    /\ "certs" \in f.dirs
    /\ \E key \in DOMAIN f.files : key[1] = "certs" /\ key[3] \in {".cert.pem", ".crt"}
    /\ \E key \in DOMAIN f.files : key[1] = "certs" /\ key[3] \in {".private.key", ".key"}

WorkRootIsDirectory(f) == "ggc-root" \in f.dirs

Labels(seq) == {seq[i] : i \in DOMAIN seq}

\* C16: check_provisioning_status returns is_provisioned = true only if a
\* recognized config file exists and passes validation, the certs directory
\* holds a certificate-pattern file and a key-pattern file, and ggc-root is
\* a directory.
C16_ProvisionedOnlyIfAllPresent ==
    env.op = "check" /\ env.result.is_provisioned =>
        /\ ConfigValid(fs)
        /\ CertAndKeyPresent(fs)
        /\ WorkRootIsDirectory(fs)

\* A version 1 layout (config.json, .crt and .key) was found provisioned.
C16_Witness ==
    /\ CheckReturned
    /\ env.result.is_provisioned
    /\ <<"config", "config", ".json">> \in DOMAIN fs.files
    /\ <<"certs", "core", ".crt">> \in DOMAIN fs.files
    /\ env.result.thing_name = "Legacy"

\* C17: when the root directory exists and the call returns,
\* missing_components holds the label of a predicate (config, certificates,
\* ggc-root) exactly when that predicate failed, each once; so it is empty
\* when all three hold, also when the config file then fails validation and
\* is_provisioned is false.
C17_MissingComponentsAreTheFailedPredicates ==
    CheckReturned /\ "" \in fs.dirs =>
        LET missing == env.result.missing_components
        IN /\ "config" \in Labels(missing) <=> ~ConfigPresent(fs)
           /\ "certificates" \in Labels(missing) <=> ~CertAndKeyPresent(fs)
           /\ "ggc-root" \in Labels(missing) <=> ~WorkRootIsDirectory(fs)
           /\ Labels(missing) \subseteq {"config", "certificates", "ggc-root"}
           /\ Len(missing) = Cardinality(Labels(missing))

\* All three predicates hold, validation fails, nothing is listed missing.
C17_Witness ==
    /\ CheckReturned
    /\ ConfigPresent(fs) /\ CertAndKeyPresent(fs) /\ WorkRootIsDirectory(fs)
    /\ ~env.result.is_provisioned
    /\ env.result.missing_components = <<>>
    /\ env.result.details = "Configuration file is invalid or corrupted"

\* C29: validate_config_file returns true exactly when at least one of
\* config.yaml, config.yml, config.json is present and passes its own format
\* check (YAML: not empty, holds "system:" and "services:"; JSON: parses and
\* has a coreThing or system key); it returns false only if no file that is
\* present validates.
C29_ValidIffSomeFileValidates ==
    env.op = "validate" => (env.result <=> ConfigValid(fs))

-----------------------------------------------------------------------------
(* ConfigGenerator called on one root, several times.  env holds the calls *)
(* made (record, fault, success), the root before the first and before the *)
(* last call, and the last GeneratedConfig.                                 *)

GenRecords == {Thing1, DefaultThing}

NotGenerated ==
    [calls |-> <<>>, fs0 |-> EmptyRoot, before |-> EmptyRoot,
     result |-> [success |-> FALSE, error_message |-> ""]]

InitGenerator ==
    /\ pc = "start"
    /\ exit_code = Running
    /\ run = 1
    /\ current_status_ = NoStatus
    /\ disk = EmptyDisk
    /\ fs \in InitTrees
    /\ db = [device_identifiers |-> <<>>, device_config |-> <<>>]
    /\ env = [NotGenerated EXCEPT !.fs0 = fs, !.before = fs]
    /\ trace = <<>>
    /\ prev = NoPrev
    /\ wr = NoWriters
    /\ obs = NoRead

\* config_gen.generate_config(device_config)
Generate ==
    /\ Len(env.calls) < MaxCalls
    /\ \E rec \in GenRecords, fault \in GenFaults :
          LET g == generate_config(fs, rec, fault)
          IN /\ fs' = g.fs
             /\ env' = [calls |-> Append(env.calls, [rec |-> rec, fault |-> fault,
                                                     success |-> g.success]),
                        fs0 |-> env.fs0,
                        before |-> fs,
                        result |-> [success |-> g.success,
                                    error_message |-> g.error_message]]
    /\ UNCHANGED <<pc, exit_code, run, current_status_, disk, db, trace, prev, wr, obs>>

NextGenerator == Generate

SpecGenerator == InitGenerator /\ [][NextGenerator]_vars

\* The last call made.
LastCall == env.calls[Len(env.calls)]

Generated == env.calls # <<>>

ModeOf(key) == fs.files[key].mode

GroupOrOtherBits ==
    {"group_read", "group_write", "group_exec", "others_read", "others_write", "others_exec"}

\* C18: when generate_config has returned success = true, the private key
\* file has the owner's read and write bits and no group or other bit, and
\* the certificate and root CA files are readable by group.
C18_PrivateKeyOwnerOnly ==
    Generated /\ env.result.success =>
        /\ ModeOf(PrivateKeyKey(LastCall.rec)) = {"owner_read", "owner_write"}
        /\ ModeOf(PrivateKeyKey(LastCall.rec)) \cap GroupOrOtherBits = {}
        /\ "group_read" \in ModeOf(CertKey(LastCall.rec))
        /\ "group_read" \in ModeOf(RootCaKey)

\* The files a call wrote, created or removed.
Changed ==
    {key \in DOMAIN fs.files \cup DOMAIN env.before.files :
        \/ key \notin DOMAIN fs.files
        \/ key \notin DOMAIN env.before.files
        \/ fs.files[key] # env.before.files[key]}

\* The files the steps write before the one that fails at the fault.
WrittenBefore(rec, fault) ==
    CASE fault \in {"mkdir", "cert"} -> {}
      [] fault = "key" -> {CertKey(rec)}
      [] fault = "ca" -> {CertKey(rec), PrivateKeyKey(rec)}
      [] fault = "config" -> {CertKey(rec), PrivateKeyKey(rec), RootCaKey}
      [] OTHER -> {CertKey(rec), PrivateKeyKey(rec), RootCaKey, <<"config", "config", ".yaml">>}

\* C19: generate_config runs directory structure, credential files, runtime
\* configuration, validation in this order; the first step that fails stops
\* the later ones (no file of a later step is written) and gives success =
\* false with a non-empty error_message; success = true is returned exactly
\* when all four succeeded, and then the config, certificate, private key
\* and root CA files exist.
C19_StepsShortCircuit ==
    Generated =>
        LET rec == LastCall.rec
            fault == LastCall.fault
            dirs_ok == \A i \in DOMAIN GreengrassDirs :
                          <<"", GreengrassDirs[i], "">> \notin DOMAIN env.before.files
            files_ok == fault \in {"none", "chmod"}
        IN /\ env.result.success <=> dirs_ok /\ files_ok
           /\ ~env.result.success => env.result.error_message # ""
           /\ ~dirs_ok => Changed = {}
           /\ Changed \subseteq WrittenBefore(rec, fault)
           /\ dirs_ok /\ fault # "mkdir" =>
                 /\ {GreengrassDirs[i] : i \in DOMAIN GreengrassDirs} \subseteq fs.dirs
                 /\ WrittenBefore(rec, fault) \subseteq DOMAIN fs.files
           /\ env.result.success =>
                 {<<"config", "config", ".yaml">>, CertKey(rec), PrivateKeyKey(rec), RootCaKey}
                    \subseteq DOMAIN fs.files

\* The private key could not be opened: the certificate is written, the
\* root CA and config.yaml are not.
C19_Witness ==
    /\ Generated
    /\ LastCall.fault = "key"
    /\ env.before = EmptyRoot
    /\ ~env.result.success
    /\ env.result.error_message # ""
    /\ DOMAIN fs.files = {CertKey(LastCall.rec)}
    /\ "certs" \in fs.dirs

\* What the files of a tree hold.
Contents(f) == [key \in DOMAIN f.files |-> f.files[key].content]

\* C20: after generate_config(r1) and then generate_config(r2) on a root that
\* was empty, both successful, the files under the root and their content
\* are those generate_config(r2) alone leaves on an empty root.
C20_SecondCallReplacesFirst ==
    /\ Len(env.calls) = 2
    /\ env.fs0 = EmptyRoot
    /\ env.calls[1].success
    /\ env.calls[2].success
    => Contents(fs) = Contents(generate_config(EmptyRoot, env.calls[2].rec, "none").fs)

\* C30: after generate_config has returned success, the device certificate
\* file and the root CA file have the bits of 0644 (owner read and write,
\* group read, others read) and the private key file those of 0600.
C30_CredentialFileModes ==
    Generated /\ env.result.success =>
        /\ ModeOf(CertKey(LastCall.rec)) =
               {"owner_read", "owner_write", "group_read", "others_read"}
        /\ ModeOf(RootCaKey) = {"owner_read", "owner_write", "group_read", "others_read"}
        /\ ModeOf(PrivateKeyKey(LastCall.rec)) = {"owner_read", "owner_write"}

-----------------------------------------------------------------------------
(* ConfigGenerator on an empty root with a record whose optional fields    *)
(* are present or absent, then ProvisioningChecker on the same root.        *)

OptionalFields ==
    {"nucleus_version", "deployment_group", "initial_components", "proxy_url",
     "mqtt_port", "custom_domain"}

\* A record with every optional field set.
FullThing ==
    [device_id |-> "d1", thing_name |-> "Thing1", iot_endpoint |-> "iot.example.com",
     aws_region |-> "us-east-1", root_ca_path |-> "<CA-PEM>",
     certificate_pem |-> "<CERT-PEM>", private_key_pem |-> "<KEY-PEM>",
     role_alias |-> "Role1", role_alias_endpoint |-> "cred.example.com",
     nucleus_version |-> "2.12.1", deployment_group |-> "group1",
     initial_components |-> <<"Component1", "Component2">>,
     proxy_url |-> <<"http://proxy:3128">>, mqtt_port |-> <<8883>>,
     custom_domain |-> <<"iot.custom.example">>]

\* What a default-constructed DeviceConfig holds in an optional field.
Absent(field) ==
    IF field \in {"nucleus_version", "deployment_group"} THEN "" ELSE <<>>

\* The record without the fields of the set.
Without(absent) ==
    [field \in DOMAIN FullThing |->
        IF field \in absent THEN Absent(field) ELSE FullThing[field]]

OptionalRecords == {Without(absent) : absent \in SUBSET OptionalFields}

NotMaterialized ==
    [rec |-> NoRecord, fault |-> "none",
     result |-> [success |-> FALSE, error_message |-> ""],
     status |-> NotProvisioned("", <<>>)]

InitRoundTrip ==
    /\ pc = "start"
    /\ exit_code = Running
    /\ run = 1
    /\ current_status_ = NoStatus
    /\ disk = EmptyDisk
    /\ fs = EmptyRoot
    /\ db = [device_identifiers |-> <<>>, device_config |-> <<>>]
    /\ env = NotMaterialized
    /\ trace = <<>>
    /\ prev = NoPrev
    /\ wr = NoWriters
    /\ obs = NoRead

roundTripFrame == <<exit_code, run, current_status_, disk, db, trace, prev, wr, obs>>

\* ConfigGenerator generator(root); generator.generate_config(rec)
Materialize ==
    /\ pc = "start"
    /\ \E rec \in OptionalRecords, fault \in GenFaults :
          LET g == generate_config(fs, rec, fault)
          IN /\ fs' = g.fs
             /\ env' = [env EXCEPT !.rec = rec, !.fault = fault,
                                   !.result = [success |-> g.success,
                                               error_message |-> g.error_message]]
    /\ pc' = "generated"
    /\ UNCHANGED roundTripFrame

\* ProvisioningChecker checker(root); checker.check_provisioning_status()
Detect ==
    /\ pc = "generated"
    /\ env' = [env EXCEPT !.status = check_provisioning_status(fs)]
    /\ pc' = "detected"
    /\ UNCHANGED <<fs>>
    /\ UNCHANGED roundTripFrame

NextRoundTrip == Materialize \/ Detect

SpecRoundTrip == InitRoundTrip /\ [][NextRoundTrip]_vars

\* C21: after generate_config has succeeded for a record on an empty root,
\* check_provisioning_status on that root reports is_provisioned = true, the
\* version tag of Greengrass v2 (the string "v2.x") and no missing component.
C21_GeneratedRootIsProvisioned ==
    pc = "detected" /\ env.result.success =>
        /\ ~env.status.threw
        /\ env.status.is_provisioned
        /\ env.status.greengrass_version = "v2.x"
        /\ env.status.missing_components = <<>>

C21_Witness ==
    /\ pc = "detected"
    /\ env.result.success
    /\ env.rec = Without(OptionalFields)
    /\ env.status.is_provisioned
    /\ env.status.greengrass_version = "v2.x"

\* The optional fields the record of the call does not have.
AbsentFields == {field \in OptionalFields : env.rec[field] = Absent(field)}

VersionWritten == ValueOf(fs.files[ConfigKey(".yaml")].content, "version:")

\* C22: with the required fields set and any subset of the optional fields
\* (runtime version, deployment group, initial components, proxy URL, MQTT
\* port, custom domain) absent, generate_config returns success = true when
\* the root can be written, and when the runtime version is absent the
\* generated configuration has version "2.9.0".
C22_OptionalFieldsMayBeAbsent ==
    pc # "start" /\ env.fault = "none" =>
        /\ env.result.success
        /\ env.result.error_message = ""
        /\ "nucleus_version" \in AbsentFields => VersionWritten = Quote("2.9.0")
        /\ "nucleus_version" \notin AbsentFields =>
               VersionWritten = Quote(env.rec.nucleus_version)

\* The minimal record: every optional field absent.
C22_Witness ==
    /\ pc = "generated"
    /\ env.fault = "none"
    /\ AbsentFields = OptionalFields
    /\ env.result.success
    /\ VersionWritten = Quote("2.9.0")

-----------------------------------------------------------------------------
(* One ConfigDatabase object: connect, disconnect and the two lookups, in  *)
(* any order.  env.db_ is whether the handle is set, env.last_error_ the    *)
(* member of the same name, returned what the last call gave back.          *)

\* Rows of device_identifiers: device_id, mac_address, serial_number.
Row(device_id, mac_address, serial_number) ==
    [device_id |-> device_id, mac_address |-> mac_address, serial_number |-> serial_number]

Matches(row, identifier) ==
    row.mac_address = identifier \/ row.serial_number = identifier

\* SELECT device_id FROM device_identifiers WHERE mac_address = x OR
\* serial_number = x LIMIT 1, for every x some row matches: the first row.
IdentifierIndex(rows) ==
    [x \in {rows[i].mac_address : i \in DOMAIN rows}
           \cup {rows[i].serial_number : i \in DOMAIN rows} |->
        LET i == CHOOSE j \in DOMAIN rows :
                     Matches(rows[j], x) /\ \A k \in DOMAIN rows : Matches(rows[k], x) => j <= k
        IN rows[i].device_id]

IdentifierRows ==
    { <<>>,
      <<Row("d1", "aa:bb:cc:dd:ee:ff", "SERIAL123"), Row("d1", "11:22:33:44:55:66", "SERIAL456")>>,
      <<Row("ghost", "aa:bb:cc:dd:ee:ff", "SERIAL123"), Row("default", "11:22:33:44:55:66", "SERIAL456")>>,
      <<Row("", "aa:bb:cc:dd:ee:ff", "SERIAL123"), Row("d1", "SERIAL123", "SERIAL456")>> }

ConfigRows ==
    { <<>>, ("d1" :> Thing1), ("d1" :> Thing1) @@ ("default" :> DefaultThing) }

StoreTables ==
    { [device_identifiers |-> IdentifierIndex(rows), device_config |-> configs] :
        rows \in IdentifierRows, configs \in ConfigRows }

DeviceIdArgs == {"d1", "default", "ghost", "missing"}

IdentifierArgs == {"aa:bb:cc:dd:ee:ff", "SERIAL123", "SERIAL456", "non-existent-mac"}

NoneReturned == [found |-> FALSE, config |-> NoRecord]

NewStore ==
    [db_ |-> FALSE, last_error_ |-> "", op |-> "none", arg |-> "", was_connected |-> FALSE,
     query_ok |-> TRUE, returned |-> NoneReturned, ops |-> 0]

InitStore ==
    /\ pc = "start"
    /\ exit_code = Running
    /\ run = 1
    /\ current_status_ = NoStatus
    /\ disk = EmptyDisk
    /\ fs = EmptyRoot
    /\ db \in StoreTables
    /\ env = NewStore
    /\ trace = <<>>
    /\ prev = NoPrev
    /\ wr = NoWriters
    /\ obs = NoRead

storeFrame == <<pc, exit_code, run, current_status_, disk, fs, db, trace, prev, wr, obs>>

\* A call on the object: what it leaves in the members and gives back.
StoreCall(op, arg, query_ok, handle, last_error, returned) ==
    /\ env.ops < MaxOps
    /\ env' = [db_ |-> handle, last_error_ |-> last_error, op |-> op, arg |-> arg,
               was_connected |-> env.db_, query_ok |-> query_ok, returned |-> returned,
               ops |-> env.ops + 1]
    /\ UNCHANGED storeFrame

\* ConfigDatabase::connect; opened: sqlite3_open returned SQLITE_OK.
Connect ==
    \E opened \in BOOLEAN :
        IF env.db_ THEN StoreCall("connect", "", TRUE, TRUE, env.last_error_, NoneReturned)
        ELSE IF opened THEN StoreCall("connect", "", TRUE, TRUE, env.last_error_, NoneReturned)
        ELSE StoreCall("connect", "", FALSE, FALSE, "Cannot open database", NoneReturned)

\* ConfigDatabase::disconnect
Disconnect == StoreCall("disconnect", "", TRUE, FALSE, env.last_error_, NoneReturned)

\* A lookup: the not-connected branch, else the query; last_error_ is
\* assigned only on the branches that assign it.
Lookup(op, arg, query_ok, r) ==
    IF ~env.db_
    THEN StoreCall(op, arg, query_ok, FALSE, "Database not connected", NoneReturned)
    ELSE StoreCall(op, arg, query_ok, TRUE,
                   IF r.last_error # "" THEN r.last_error ELSE env.last_error_,
                   [found |-> r.found, config |-> r.config])

\* ConfigDatabase::get_device_config(device_id)
GetDeviceConfig ==
    \E device_id \in DeviceIdArgs, query_ok \in BOOLEAN :
        Lookup("get_device_config", device_id, query_ok,
               get_device_config(db, device_id, query_ok))

\* ConfigDatabase::get_device_config_by_identifier(identifier)
GetDeviceConfigByIdentifier ==
    \E identifier \in IdentifierArgs, query_ok \in BOOLEAN :
        Lookup("get_device_config_by_identifier", identifier, query_ok,
               get_device_config_by_identifier(db, identifier, query_ok))

NextStore == Connect \/ Disconnect \/ GetDeviceConfig \/ GetDeviceConfigByIdentifier

SpecStore == InitStore /\ [][NextStore]_vars

LookedUp == env.op \in {"get_device_config", "get_device_config_by_identifier"}

\* C23: a lookup called while the store is not connected returns no record
\* and leaves the last error "Database not connected", and a lookup called
\* while connected that finds nothing does not leave that outcome.
C23_NotConnectedIsDistinguishable ==
    /\ LookedUp /\ ~env.was_connected =>
          /\ ~env.returned.found
          /\ env.last_error_ = "Database not connected"
    /\ LookedUp /\ env.was_connected /\ env.query_ok /\ ~env.returned.found =>
          env.last_error_ # "Database not connected"

\* The device id the device_identifiers table gives for the argument of the
\* last call, "" when no row matches or the row holds no id.
ResolvedId ==
    IF env.arg \in DOMAIN db.device_identifiers THEN db.device_identifiers[env.arg] ELSE ""

\* What the device_config table holds for a device id.
RecordOf(device_id) ==
    IF device_id \in DOMAIN db.device_config
    THEN [found |-> TRUE, config |-> db.device_config[device_id]]
    ELSE NoneReturned

\* C24: on a connected store whose queries run, get_device_config_by_identifier
\* of an identifier that device_identifiers resolves (by MAC address or serial
\* number) to device id d returns the record get_device_config(d) returns, and
\* of an identifier that resolves to nothing returns no record.
C24_IdentifierLookupIsPrimaryLookup ==
    /\ env.op = "get_device_config_by_identifier" /\ env.was_connected /\ env.query_ok =>
          env.returned = IF ResolvedId = "" THEN NoneReturned ELSE RecordOf(ResolvedId)
    /\ env.op = "get_device_config" /\ env.was_connected /\ env.query_ok =>
          env.returned = RecordOf(env.arg)

\* A MAC address that resolves to d1, whose record is returned.
C24_Witness ==
    /\ env.op = "get_device_config_by_identifier"
    /\ env.was_connected
    /\ env.arg = "aa:bb:cc:dd:ee:ff"
    /\ ResolvedId = "d1"
    /\ env.returned.found
    /\ env.returned.config = Thing1

-----------------------------------------------------------------------------
(* ConfigGenerator::validate_configuration called on a root as it is.      *)

\* generator.validate_configuration()
ValidateConfiguration ==
    /\ pc = "start"
    /\ pc' = "validated"
    /\ env' = [op |-> "validate_configuration", result |-> validate_configuration_call(fs)]
    /\ UNCHANGED <<exit_code, run, current_status_, disk, fs, db, trace, prev, wr, obs>>

NextValidation == ValidateConfiguration

SpecValidation == InitChecker /\ [][NextValidation]_vars

\* The errors the steps before validation leave in last_error_.
GenerationErrors ==
    {generate_config(f, Thing1, fault).error_message : f \in InitTrees, fault \in GenFaults}
        \ {"No certificates found in certs directory"}

ConfigNonEmpty(f) ==
    /\ <<"config", "config", ".yaml">> \in DOMAIN f.files
    /\ f.files[<<"config", "config", ".yaml">>].content # <<>>

CredentialFilePresent(f) ==
    \E key \in DOMAIN f.files :
        key[1] = "certs" /\ key[3] \in {".cert.pem", ".ca.pem", ".private.key", ".key"}

\* C31: validate_configuration returns false, with an error that is none of
\* the generation errors, whenever config.yaml is missing or empty and
\* whenever the certs directory holds no certificate-or-key file; it returns
\* true only if config.yaml exists, is not empty and such a file exists.
C31_ValidationFailsOnMissingOrEmpty ==
    env.op = "validate_configuration" =>
        /\ ~env.result.threw
        /\ env.result.ok <=> ConfigNonEmpty(fs) /\ CredentialFilePresent(fs)
        /\ ~env.result.ok =>
              env.result.last_error # "" /\ env.result.last_error \notin GenerationErrors

-----------------------------------------------------------------------------
(* main on an empty root with a store whose record lacks a required field. *)

RequiredFields ==
    {"thing_name", "iot_endpoint", "aws_region", "root_ca_path", "certificate_pem",
     "private_key_pem", "role_alias", "role_alias_endpoint"}

\* The row of Thing1 with one required column empty (get_text gives "" for
\* an empty and for a NULL column).
Lacking(field) == [f \in DOMAIN Thing1 |-> IF f = field THEN "" ELSE Thing1[f]]

IncompleteStores ==
    { [device_identifiers |-> (DeviceIdentifier :> "d1"),
       device_config |-> ("d1" :> Lacking(field))] : field \in RequiredFields }

InitIncomplete ==
    /\ pc = "start"
    /\ exit_code = Running
    /\ run = 1
    /\ current_status_ = NoStatus
    /\ disk = EmptyDisk
    /\ fs = EmptyRoot
    /\ db \in IncompleteStores
    /\ env = NewEnv(fs)
    /\ trace = <<>>
    /\ prev = NoPrev
    /\ wr = NoWriters
    /\ obs = NoRead

SpecIncomplete == InitIncomplete /\ [][Next]_vars

Incomplete(rec) == \E field \in RequiredFields : rec[field] = ""

\* C32: with a record in which a required field is empty the orchestrator
\* does not run generate_config, leaves the root without generated files, does
\* not reach COMPLETED and ends the run in ERROR.
C32_IncompleteRecordIsRejected ==
    env.store = "found" /\ Incomplete(env.rec) =>
        /\ env.gen = "none"
        /\ "materializer" \notin env.calls
        /\ current_status_.status # COMPLETED
        /\ pc = "done" => current_status_.status = ERROR

-----------------------------------------------------------------------------
(* ConnectivityChecker::check_connectivity, probe by probe: which hosts it  *)
(* asks, in which order, and what it returns.                              *)

DnsHost == "amazonaws.com"

TrustAnchorUrl == "https://www.amazontrust.com"

\* aws_endpoints_ as the constructor fills it outside TEST_MODE.
DefaultAwsEndpoints ==
    <<"https://iot.us-east-1.amazonaws.com",
      "https://iot.us-west-2.amazonaws.com",
      "https://greengrass.us-east-1.amazonaws.com",
      "https://www.amazontrust.com">>

\* The endpoint TEST_MODE puts in aws_endpoints_ and custom_iot_endpoint_.
MockEndpoint == "http://mock-iot:8080"

\* The checker after construction: outside TEST_MODE, and in TEST_MODE.
Checkers ==
    { [aws_endpoints_ |-> DefaultAwsEndpoints, custom_iot_endpoint_ |-> ""],
      [aws_endpoints_ |-> <<MockEndpoint>>, custom_iot_endpoint_ |-> MockEndpoint] }

\* What the network answers during one call: the name lookup, the request to
\* the trust-anchor host, and the set of endpoints that respond when asked.
Worlds ==
    [dns : BOOLEAN, anchor : BOOLEAN,
     responding : SUBSET ({DefaultAwsEndpoints[i] : i \in 1..Len(DefaultAwsEndpoints)}
                          \cup {MockEndpoint})]

\* The loop without its break: every candidate is asked, whether or not one
\* answered before.
RECURSIVE TryEndpoints_AskAll(_, _, _)
TryEndpoints_AskAll(endpoints, i, responding) ==
    IF i > Len(endpoints)
    THEN [tested |-> <<>>, ok |-> FALSE]
    ELSE LET rest == TryEndpoints_AskAll(endpoints, i + 1, responding)
         IN  [tested |-> <<endpoints[i]>> \o rest.tested,
              ok |-> endpoints[i] \in responding \/ rest.ok]

\* The loop over aws_endpoints_: each endpoint asked is recorded in
\* tested_endpoints, and the loop breaks at the first that responds.
RECURSIVE TryEndpoints(_, _, _)
TryEndpoints(endpoints, i, responding) ==
    IF i > Len(endpoints)
    THEN [tested |-> <<>>, ok |-> FALSE]
    ELSE IF endpoints[i] \in responding
    THEN [tested |-> <<endpoints[i]>>, ok |-> TRUE]
    ELSE LET rest == TryEndpoints(endpoints, i + 1, responding)
         IN  [tested |-> <<endpoints[i]>> \o rest.tested, ok |-> rest.ok]

\* check_connectivity with the probes it makes, in order.
check_connectivity_probes(c, w) ==
    LET dnsProbe == <<[check |-> "dns", host |-> DnsHost]>>
        httpsProbe == <<[check |-> "https", host |-> TrustAnchorUrl]>>
        latencyProbe == <<[check |-> "latency", host |-> TrustAnchorUrl]>>
        Asked(es) == [k \in 1..Len(es) |-> [check |-> "endpoint", host |-> es[k]]]
    IN  IF ~w.dns
        THEN [is_connected |-> FALSE, dns_works |-> FALSE, https_works |-> FALSE,
              error_message |-> "DNS resolution failed",
              tested_endpoints |-> <<>>, probes |-> dnsProbe]
        ELSE IF ~w.anchor
        THEN [is_connected |-> FALSE, dns_works |-> TRUE, https_works |-> FALSE,
              error_message |-> "HTTPS connectivity check failed",
              tested_endpoints |-> <<>>, probes |-> dnsProbe \o httpsProbe]
        ELSE IF c.custom_iot_endpoint_ # ""
        THEN LET ok == c.custom_iot_endpoint_ \in w.responding
                 tested == <<c.custom_iot_endpoint_>>
             IN  [is_connected |-> ok, dns_works |-> TRUE, https_works |-> TRUE,
                  error_message |->
                      IF ok THEN "" ELSE "Failed to connect to custom IoT endpoint",
                  tested_endpoints |-> tested,
                  probes |-> dnsProbe \o httpsProbe \o latencyProbe \o Asked(tested)]
        ELSE LET t == TryEndpoints(c.aws_endpoints_, 1, w.responding)
             IN  [is_connected |-> t.ok, dns_works |-> TRUE, https_works |-> TRUE,
                  error_message |->
                      IF t.ok THEN "" ELSE "Failed to connect to any AWS IoT endpoint",
                  tested_endpoints |-> t.tested,
                  probes |-> dnsProbe \o httpsProbe \o latencyProbe \o Asked(t.tested)]

\* A checker is constructed and check_connectivity is called once on it.
InitConnectivity ==
    /\ pc = "start"
    /\ exit_code = Running
    /\ run = 1
    /\ current_status_ = NoStatus
    /\ disk = EmptyDisk
    /\ fs = EmptyRoot
    /\ db = [device_identifiers |-> <<>>, device_config |-> <<>>]
    /\ env \in [checker : Checkers, world : Worlds, result : {<<>>}]
    /\ trace = <<>>
    /\ prev = NoPrev
    /\ wr = NoWriters
    /\ obs = NoRead

CheckConnectivityCall ==
    /\ pc = "start"
    /\ pc' = "checked"
    /\ env' = [env EXCEPT !.result = check_connectivity_probes(env.checker, env.world)]
    /\ UNCHANGED <<exit_code, run, current_status_, disk, fs, db, trace, prev, wr, obs>>

NextConnectivity == CheckConnectivityCall

SpecConnectivity == InitConnectivity /\ [][NextConnectivity]_vars

\* The checks that are requests to a host the claim names, in the order made.
ChecksMade(r) ==
    SelectSeq(r.probes, LAMBDA p : p.check \in {"dns", "https", "endpoint"})

\* Position of the first candidate that responds, 0 if none does.
FirstResponding(endpoints, responding) ==
    IF \E i \in 1..Len(endpoints) : endpoints[i] \in responding
    THEN CHOOSE i \in 1..Len(endpoints) :
             /\ endpoints[i] \in responding
             /\ \A j \in 1..(i - 1) : endpoints[j] \notin responding
    ELSE 0

\* C33: check_connectivity checks DNS first, then HTTPS to the trust-anchor
\* host, then the custom endpoint if one is set, else the candidates in list
\* order up to the first that responds; a failing check ends the checks;
\* is_connected is true only with dns_works, https_works and a responding
\* custom endpoint or candidate, and false always carries an error message.
C33_ChecksInOrder ==
    pc = "checked" =>
        LET c == env.checker
            w == env.world
            r == env.result
            made == ChecksMade(r)
            first == FirstResponding(c.aws_endpoints_, w.responding)
            last == IF first = 0 THEN Len(c.aws_endpoints_) ELSE first
            responded == IF c.custom_iot_endpoint_ # ""
                         THEN c.custom_iot_endpoint_ \in w.responding
                         ELSE first # 0
        IN  /\ made[1] = [check |-> "dns", host |-> DnsHost]
            /\ ~w.dns => Len(made) = 1
            /\ w.dns => made[2] = [check |-> "https", host |-> TrustAnchorUrl]
            /\ w.dns /\ ~w.anchor => Len(made) = 2
            /\ w.dns /\ w.anchor /\ c.custom_iot_endpoint_ # "" =>
                   /\ Len(made) = 3
                   /\ made[3] = [check |-> "endpoint", host |-> c.custom_iot_endpoint_]
            /\ w.dns /\ w.anchor /\ c.custom_iot_endpoint_ = "" =>
                   /\ Len(made) = 2 + last
                   /\ \A k \in 1..last :
                          made[2 + k] = [check |-> "endpoint", host |-> c.aws_endpoints_[k]]
            /\ r.is_connected <=> (w.dns /\ w.anchor /\ responded)
            /\ r.is_connected => r.dns_works /\ r.https_works
            /\ ~r.is_connected => r.error_message # ""

\* C33 witness: the first two candidates stay silent and the third responds,
\* so the checker asked exactly three and reports a connection.
C33_Witness ==
    /\ pc = "checked"
    /\ env.checker.custom_iot_endpoint_ = ""
    /\ env.result.tested_endpoints =
           <<DefaultAwsEndpoints[1], DefaultAwsEndpoints[2], DefaultAwsEndpoints[3]>>
    /\ DefaultAwsEndpoints[4] \in env.world.responding
    /\ env.result.is_connected

-----------------------------------------------------------------------------
(* GreengrassProvisioner::provision, statement by statement: the sub-steps *)
(* it calls, the result it builds, and the waits of its last two sub-steps. *)

\* enum class ProvisioningStep, in declaration order.
ProvisioningStep ==
    <<"INITIALIZING", "DOWNLOADING_NUCLEUS", "INSTALLING_NUCLEUS", "CONFIGURING_SYSTEMD",
      "STARTING_SERVICE", "VERIFYING_CONNECTION", "COMPLETED">>

\* struct ProvisioningResult as it is default-constructed.
ProvisioningResult ==
    [success |-> FALSE, last_completed_step |-> "INITIALIZING", error_message |-> ""]

\* verify_greengrass_connection: while (... && wait_count < 30).
MaxWaitCount == 30

\* start_greengrass_service: sleep_for(seconds(5)).
StartSleepSeconds == 5

\* The root before provision: the nucleus jar is there or not.
JarRoot == DownloadNucleus(EmptyRoot, TRUE)

\* The provisioner when provision is entered: TEST_MODE set or not, the
\* Greengrass log file present or not.
NewProvisioner ==
    [test_mode : BOOLEAN, log : BOOLEAN, result : {ProvisioningResult},
     called : {<<>>}, finished : {<<>>}, reports : {<<>>},
     wait_count : {0}, slept : {<<>>}, jar0 : BOOLEAN]

InitProvisioner ==
    /\ pc = "create_user"
    /\ exit_code = Running
    /\ run = 1
    /\ current_status_ = NoStatus
    /\ disk = EmptyDisk
    /\ env \in NewProvisioner
    /\ fs = IF env.jar0 THEN JarRoot ELSE EmptyRoot
    /\ db = [device_identifiers |-> <<>>, device_config |-> <<>>]
    /\ trace = <<>>
    /\ prev = NoPrev
    /\ wr = NoWriters
    /\ obs = NoRead

\* report_progress(step, percentage, message) before sub-step k.
report_progress(e, k) ==
    [e EXCEPT !.reports = Append(@, [step |-> ProvisioningStep[k],
                                     percentage |-> ProvisionSteps[k].pct])]

\* Sub-step k returned ok: the step is recorded as completed and provision
\* goes on, or the error is set and provision returns the result.
SubStepReturned(e, k, ok, next) ==
    IF ok
    THEN /\ env' = [e EXCEPT !.result.last_completed_step = ProvisioningStep[k],
                             !.finished = Append(@, k)]
         /\ pc' = next
    ELSE /\ env' = [e EXCEPT !.result.error_message = ProvisionSteps[k].error]
         /\ pc' = "returned"

Called(e, k) == [e EXCEPT !.called = Append(@, k)]

ProvisionerFrame == <<exit_code, run, current_status_, disk, db, trace, prev, wr, obs>>

\* Step 1: create_greengrass_user, which TEST_MODE skips.
CreateUser ==
    /\ pc = "create_user"
    /\ \E ok \in BOOLEAN :
          SubStepReturned(Called(report_progress(env, 1), 1), 1, env.test_mode \/ ok, "download")
    /\ UNCHANGED fs
    /\ UNCHANGED ProvisionerFrame

\* Step 2: download_greengrass_nucleus unless the jar exists; TEST_MODE
\* writes a mock jar.
Download ==
    /\ pc = "download"
    /\ IF HasFile(fs, NucleusJar)
       THEN /\ SubStepReturned(report_progress(env, 2), 2, TRUE, "install")
            /\ UNCHANGED fs
       ELSE \E ok \in BOOLEAN :
               /\ fs' = DownloadNucleus(fs, env.test_mode \/ ok)
               /\ SubStepReturned(Called(report_progress(env, 2), 2), 2,
                                  env.test_mode \/ ok, "install")
    /\ UNCHANGED ProvisionerFrame

\* Step 3: install_greengrass_nucleus, the chown command.
Install ==
    /\ pc = "install"
    /\ \E ok \in BOOLEAN :
          SubStepReturned(Called(report_progress(env, 3), 3), 3, ok, "configure")
    /\ UNCHANGED fs
    /\ UNCHANGED ProvisionerFrame

\* Step 4: configure_systemd_service, which TEST_MODE skips.
ConfigureSystemd ==
    /\ pc = "configure"
    /\ \E ok \in BOOLEAN :
          SubStepReturned(Called(report_progress(env, 4), 4), 4, env.test_mode \/ ok, "start")
    /\ UNCHANGED fs
    /\ UNCHANGED ProvisionerFrame

\* Step 5: start_greengrass_service: stop, start, one sleep, is-active.
StartService ==
    /\ pc = "start"
    /\ LET e == Called(report_progress(env, 5), 5)
       IN  IF env.test_mode
           THEN SubStepReturned(e, 5, TRUE, "verify")
           ELSE \E started \in BOOLEAN, active \in BOOLEAN, logged \in BOOLEAN :
                   IF ~started
                   THEN SubStepReturned(e, 5, FALSE, "verify")
                   ELSE SubStepReturned(
                            [e EXCEPT !.slept = Append(@, StartSleepSeconds),
                                      !.log = @ \/ logged],
                            5, active, "verify")
    /\ UNCHANGED fs
    /\ UNCHANGED ProvisionerFrame

\* Step 6: verify_greengrass_connection is entered; TEST_MODE returns true.
VerifyBegin ==
    /\ pc = "verify"
    /\ LET e == Called(report_progress(env, 6), 6)
       IN  IF env.test_mode
           THEN SubStepReturned(e, 6, TRUE, "complete")
           ELSE env' = e /\ pc' = "poll"
    /\ UNCHANGED fs
    /\ UNCHANGED ProvisionerFrame

\* The wait loop with a longer bound: five more polls.
Poll_LongerWait ==
    /\ pc = "poll"
    /\ IF ~env.log /\ env.wait_count < MaxWaitCount + 5
       THEN /\ \E logged \in BOOLEAN :
                  env' = [env EXCEPT !.log = logged, !.wait_count = @ + 1]
            /\ pc' = "poll"
       ELSE env' = env /\ pc' = "verify_logs"
    /\ UNCHANGED fs
    /\ UNCHANGED ProvisionerFrame

\* while (!exists(log_file) && wait_count < 30) { sleep 1 s; wait_count++; }
Poll ==
    /\ pc = "poll"
    /\ IF ~env.log /\ env.wait_count < MaxWaitCount
       THEN /\ \E logged \in BOOLEAN :
                  env' = [env EXCEPT !.log = logged, !.wait_count = @ + 1]
            /\ pc' = "poll"
       ELSE env' = env /\ pc' = "verify_logs"
    /\ UNCHANGED fs
    /\ UNCHANGED ProvisionerFrame

\* After the loop: no log file counts as connected; else the two greps.
VerifyLogs ==
    /\ pc = "verify_logs"
    /\ IF ~env.log
       THEN SubStepReturned(env, 6, TRUE, "complete")
       ELSE \E connected \in BOOLEAN, errors \in BOOLEAN :
               SubStepReturned(env, 6, connected \/ ~errors, "complete")
    /\ UNCHANGED fs
    /\ UNCHANGED ProvisionerFrame

\* report_progress(COMPLETED, 100, ...), success = true, return.
Complete ==
    /\ pc = "complete"
    /\ env' = [env EXCEPT !.reports = Append(@, [step |-> "COMPLETED", percentage |-> 100]),
                          !.result.success = TRUE,
                          !.result.last_completed_step = "COMPLETED"]
    /\ pc' = "returned"
    /\ UNCHANGED fs
    /\ UNCHANGED ProvisionerFrame

NextProvisioner ==
    \/ CreateUser
    \/ Download
    \/ Install
    \/ ConfigureSystemd
    \/ StartService
    \/ VerifyBegin
    \/ Poll
    \/ VerifyLogs
    \/ Complete

SpecProvisioner == InitProvisioner /\ [][NextProvisioner]_vars

\* The sub-steps in their fixed order, without the download when the jar
\* was there before.
SubStepsDue(e) == SelectSeq(<<1, 2, 3, 4, 5, 6>>, LAMBDA k : ~(k = 2 /\ e.jar0))

IsPrefix(s, t) == Len(s) <= Len(t) /\ \A i \in 1..Len(s) : s[i] = t[i]

\* The sub-steps run in order, the first failure is the last one called,
\* and success comes only with COMPLETED after all of them.
ProvisionRunsInOrder ==
    /\ IsPrefix(env.called, SubStepsDue(env))
    /\ pc = "returned" /\ ~env.result.success =>
           /\ env.result.error_message # ""
           /\ env.called # <<>>
           /\ env.called[Len(env.called)] \notin
                  {env.finished[i] : i \in 1..Len(env.finished)}
    /\ env.result.success =>
           /\ pc = "returned"
           /\ env.result.last_completed_step = "COMPLETED"
           /\ env.called = SubStepsDue(env)
           /\ env.finished = <<1, 2, 3, 4, 5, 6>>

\* C34: provision runs create user, download (skipped when the jar exists),
\* install, configure, start, verify in this order; the first failure stops
\* the rest and returns success = false, an error message and
\* last_completed_step naming the last sub-step that finished; success is
\* returned only with COMPLETED after all sub-steps.
C34_ProvisionStepsInOrder ==
    /\ ProvisionRunsInOrder
    /\ pc = "returned" /\ ~env.result.success =>
           /\ env.finished # <<>>
           /\ env.result.last_completed_step =
                  ProvisioningStep[env.finished[Len(env.finished)]]

\* The step the result names when a sub-step after the first one failed.
ProvisionNamesLastFinished ==
    pc = "returned" /\ ~env.result.success /\ env.finished # <<>> =>
        env.result.last_completed_step = ProvisioningStep[env.finished[Len(env.finished)]]

\* The first sub-step failed: the result names INITIALIZING as completed.
ProvisionFailedAtFirst ==
    pc = "returned" /\ env.finished = <<>> =>
        /\ ~env.result.success
        /\ env.result.last_completed_step = "INITIALIZING"

\* Every shell command and every sleep of provision returns: a step of
\* provision that can be taken is eventually taken.
SpecProvisionerFair == SpecProvisioner /\ WF_vars(NextProvisioner)

\* C35: the waits of provision are bounded: the start step sleeps at most
\* once, for the fixed interval, the verification step polls for the log
\* file at most 30 times, and provision eventually returns.
C35_ProvisionWaitIsBounded ==
    /\ [](/\ env.wait_count <= MaxWaitCount
          /\ Len(env.slept) <= 1
          /\ \A i \in 1..Len(env.slept) : env.slept[i] = StartSleepSeconds)
    /\ <>(pc = "returned")

\* C35 witness: the service was started, the log file never appeared, and
\* provision returned after the sleep and 30 polls.
C35_Witness ==
    /\ pc = "returned"
    /\ env.slept = <<StartSleepSeconds>>
    /\ env.wait_count = MaxWaitCount
    /\ ~env.log

-----------------------------------------------------------------------------
(* main: how a run ends *)

\* The positions in the run's status writes that carry a terminal phase.
TerminalWrites == {i \in 1..Len(trace) : trace[i].status \in Terminal}

\* The run ended where the arguments were parsed: nothing was constructed.
EndedAtParsing == pc = "done" /\ exit_code = 1 /\ trace = <<>>

\* A run that constructed its reporter wrote one terminal phase, last.
ReporterRunEndsTerminal ==
    pc = "done" /\ trace # <<>> => TerminalWrites = {Len(trace)}

\* The status file of a run that constructed its reporter holds, when the
\* run exits, a document with a terminal phase.
StatusFileEndsTerminal ==
    pc = "done" /\ trace # <<>> =>
        /\ ReadTarget(disk) # <<>>
        /\ ReadTarget(disk)[1].doc.status \in {status_to_string(s) : s \in Terminal}

\* C36: a run that got past argument parsing has, when it exits, written
\* exactly one terminal phase, and that as its last status write.
C36_RunEndsInOneTerminalPhase ==
    pc = "done" /\ ~EndedAtParsing => TerminalWrites = {Len(trace)} /\ trace # <<>>

-----------------------------------------------------------------------------
(* main, run again and again on a root that was empty at the first run *)

InitFromEmpty ==
    /\ pc = "start"
    /\ exit_code = Running
    /\ run = 1
    /\ current_status_ = NoStatus
    /\ disk = EmptyDisk
    /\ fs = EmptyRoot
    /\ db \in InitStores
    /\ env = NewEnv(fs)
    /\ trace = <<>>
    /\ prev = NoPrev
    /\ wr = NoWriters
    /\ obs = NoRead

SpecFromEmpty == InitFromEmpty /\ [][Next]_vars

\* The second run short-circuits after a first run that failed in provision.
ShortCircuitAfterError ==
    /\ run = 2
    /\ prev.status = ERROR
    /\ current_status_.status = ALREADY_PROVISIONED
    /\ "activation" \notin env.calls

\* C37: on a root that was empty and that only this program modifies, the
\* first run never reports ALREADY_PROVISIONED and the second run reports it
\* only after a first run that reached COMPLETED; after a run that ended in
\* ERROR the next run does not short-circuit.
C37_AlreadyProvisionedOnlyAfterCompleted ==
    /\ run = 1 => current_status_.status # ALREADY_PROVISIONED
    /\ run = 2 /\ current_status_.status = ALREADY_PROVISIONED => prev.status = COMPLETED
    /\ ~ShortCircuitAfterError

-----------------------------------------------------------------------------
(* main: the progress written from one status write to the next *)

\* C38: within one run the progress_percentage of each status write is at
\* least that of the write before it.
C38_ProgressNeverDecreases ==
    \A i \in 1..(Len(trace) - 1) :
        trace[i].progress_percentage <= trace[i + 1].progress_percentage

\* Up to the PROVISIONING record main writes before provision, and again
\* from the first report of provision on, the progress does not decrease.
ProgressDecreasesOnlyAtProvision ==
    \A i \in 1..(Len(trace) - 1) :
        trace[i].progress_percentage > trace[i + 1].progress_percentage =>
            /\ trace[i].status = PROVISIONING
            /\ trace[i].progress_percentage = 80
            /\ trace[i + 1].status = PROVISIONING
            /\ trace[i + 1].progress_percentage = 0

-----------------------------------------------------------------------------
(* generate_config, then check_provisioning_status: the thing name *)

\* C39: after generate_config succeeded for a record on an empty root,
\* check_provisioning_status reports the record's thing_name as thing_name.
C39_ThingNameRoundTrip ==
    pc = "detected" /\ env.result.success =>
        env.status.thing_name = env.rec.thing_name

\* What is reported is the record's thing_name between double quotes.
ThingNameComesBackQuoted ==
    pc = "detected" /\ env.result.success =>
        env.status.thing_name = Quote(env.rec.thing_name)

====
